---- MODULE Spec2Model ----
(***************************************************************************)
(* A model of the SQLite forensic engine of ios-forensics-mcp:             *)
(*   tools/sqlite/analyzer.py      schema analysis and query execution     *)
(*   tools/sqlite/freelist.py      freelist walk, page parsing, carving    *)
(*   tools/sqlite/wal_analyzer.py  WAL header / frame parsing and diff     *)
(* Every operation is one action that models the whole handler.  The       *)
(* evidence files (as bytes), the scratch directories and the accesses     *)
(* each call makes are part of the state.                                  *)
(***************************************************************************)
EXTENDS Integers, Sequences, FiniteSets, TLC

(***************************************************************************)
(* Bounds of the model.                                                    *)
(***************************************************************************)
MaxQueryLen == 3
MaxCalls == 3
MaxAccessCalls == 2
MaxExtraRows == 1
MaxFrames == 2
MaxTrunks == 2
MaxLeaves == 2
MaxDepth == 4
MaxVarintBuf == 10
MaxDirNames == 3
MaxFreePages == 2
MaxCells == 2
MaxCellLen == 3

(***************************************************************************)
(* Program constants.                                                      *)
(***************************************************************************)
MAX_ROWS == 1000

WAL_MAGIC == 931071618

WAL_MAGIC_BE == 931071619

WAL_HEADER_SIZE == 32

FRAME_HEADER_SIZE == 24

DB_HEADER_SIZE == 100

\* all_fragments[:100]
FRAGMENT_LIMIT == 100

\* The page size of the model's database files: the smallest power of two that
\* holds the 100-byte header, so that page 1 is the header page as in SQLite.
ModelPageSize == 2 ^ 7

VARIABLES
    dbExists,   \* db_path names a regular file
    dbBytes,    \* the bytes of the original database file
    dbStamp,    \* [hash, mtime] of the original database file
    hasWal,     \* the -wal sibling exists
    walBytes,   \* the bytes of the -wal sibling
    hasShm,     \* the -shm sibling exists
    tmpDirs,    \* scratch directories on disk: set of [id, files]
    nextTmp,    \* tempfile.mkdtemp() hands out fresh names
    callsLeft,  \* calls the environment still makes
    query,      \* the SQL text handed to execute_query (a sequence of lexical units)
    lastCall,   \* what the last call did: accesses, scratch directories, outcome
    result,     \* the data the last call returned
    built,      \* a WALAnalyzer object has been constructed
    wal_info,   \* WALAnalyzer.wal_info
    parser,     \* the SQLiteFreelistParser the last recovery call constructed
    scan_results, \* what scan_freelist returned to the last recover_deleted_records
    varintIn,   \* [data, offset] handed to _decode_varint
    procs,      \* concurrent analyses: for each its position, its temp_dir and its operation
    lastStep    \* the last file-system step a concurrent analysis took

fileVars == <<dbExists, dbBytes, dbStamp, hasWal, walBytes, hasShm>>

vars == <<dbExists, dbBytes, dbStamp, hasWal, walBytes, hasShm, tmpDirs, nextTmp,
          callsLeft, query, lastCall, result, built, wal_info, parser, varintIn,
          procs, lastStep, scan_results>>

(***************************************************************************)
(* Bytes.                                                                  *)
(***************************************************************************)
Min(a, b) == IF a < b THEN a ELSE b

\* data[lo:hi] of Python: 0-based, hi exclusive, clipped to the data
Slice(data, lo, hi) == SubSeq(data, lo + 1, Min(hi, Len(data)))

Zeros(n) == [i \in 1..n |-> 0]

Fill(n, b) == [i \in 1..n |-> b]

\* Python's integers are unbounded and the model checker's are 32-bit: a decoded
\* value of 2^30 or more is kept as Huge.  Every file of the model is shorter than
\* Huge bytes, and the input files hold no two different such values that the
\* program compares.
Huge == 2 ^ 30

\* struct.unpack('>I'), ('<I'), ('>H') of exactly 4 or 2 bytes
U32BE(b) ==
    IF b[1] >= 64 THEN Huge ELSE ((b[1] * 256 + b[2]) * 256 + b[3]) * 256 + b[4]

U32LE(b) ==
    IF b[4] >= 64 THEN Huge ELSE ((b[4] * 256 + b[3]) * 256 + b[2]) * 256 + b[1]

U16BE(b) == b[1] * 256 + b[2]

\* struct.pack, used to build the input files
BE32(n) == <<(n \div 16777216) % 256, (n \div 65536) % 256, (n \div 256) % 256, n % 256>>

LE32(n) == <<n % 256, (n \div 256) % 256, (n \div 65536) % 256, (n \div 16777216) % 256>>

BE16(n) == <<(n \div 256) % 256, n % 256>>

\* b'SQLite format 3\x00'
SQLITE_MAGIC == <<83, 81, 76, 105, 116, 101, 32, 102, 111, 114, 109, 97, 116, 32, 51, 0>>

(***************************************************************************)
(* SQL text.  A query is a sequence of lexical units: two spellings of     *)
(* denylisted keywords, an ordinary word, white space, the semicolon and a *)
(* punctuation character that is neither white space nor part of a word.   *)
(***************************************************************************)
Whitespace == {" "}

WordUnits == {"DROP", "pragma", "SELECT"}

Units == WordUnits \cup Whitespace \cup {";", "("}

Queries == UNION {[1..n -> Units] : n \in 0..MaxQueryLen}

forbidden_keywords ==
    <<"DROP", "DELETE", "UPDATE", "INSERT", "ALTER", "ATTACH", "DETACH", "PRAGMA">>

\* str.upper() on one unit
upper_unit(u) == IF u = "pragma" THEN "PRAGMA" ELSE u

upper(q) == [i \in 1..Len(q) |-> upper_unit(q[i])]

RECURSIVE lstrip(_)
lstrip(q) == IF q # <<>> /\ Head(q) \in Whitespace THEN lstrip(Tail(q)) ELSE q

RECURSIVE rstrip(_)
rstrip(q) ==
    IF q # <<>> /\ q[Len(q)] \in Whitespace
    THEN rstrip(SubSeq(q, 1, Len(q) - 1))
    ELSE q

\* str.strip()
strip(q) == rstrip(lstrip(q))

RECURSIVE RunLen(_)
RunLen(q) == IF q = <<>> \/ Head(q) \in Whitespace THEN 0 ELSE 1 + RunLen(Tail(q))

\* str.split(): the maximal runs without white space, in order
RECURSIVE split(_)
split(q) ==
    IF q = <<>> THEN <<>>
    ELSE IF Head(q) \in Whitespace THEN split(Tail(q))
    ELSE <<SubSeq(q, 1, RunLen(q))>> \o split(SubSeq(q, RunLen(q) + 1, Len(q)))

\* ";" in query[:-1] : every unit is at least one character and ";" is exactly one
MultipleMutant(q) == \E i \in 1..(Len(q) - 2) : q[i] = ";"

HasMultipleStatements(q) == \E i \in 1..(Len(q) - 1) : q[i] = ";"

\* keyword in query.upper().split(), for some keyword of the denylist
HasForbiddenKeyword(q) ==
    \E k \in 1..Len(forbidden_keywords) :
        \E t \in 1..Len(split(upper(q))) : split(upper(q))[t] = <<forbidden_keywords[k]>>

(***************************************************************************)
(* Files and accesses.  An access is <<file, mode>>: file is "db", "wal",  *)
(* "shm" (the originals) or "tmp" (a file of a scratch directory); mode is *)
(* "read" (open 'rb'), "copy" (shutil.copy2 source), "sql_ro"              *)
(* (sqlite3.connect of a file:...?mode=ro URI) or "sql_rw" (sqlite3.connect *)
(* of a plain path).                                                       *)
(***************************************************************************)
Faults == {"none", "copy", "open", "query"}

AvailRows == {0, 1, MAX_ROWS - 1, MAX_ROWS} \cup (MAX_ROWS + 1 .. MAX_ROWS + MaxExtraRows)

NoCall ==
    [op |-> "none", outcome |-> "none", error |-> "", accesses |-> {}, created |-> {},
     executed |-> FALSE, avail |-> 0, nrows |-> 0, row_count |-> 0, has_more |-> FALSE]

Returned(op, accesses, created) ==
    [NoCall EXCEPT !.op = op, !.outcome = "ok", !.accesses = accesses, !.created = created]

Raised(op, error, accesses, created) ==
    [NoCall EXCEPT !.op = op, !.outcome = "error", !.error = error,
                   !.accesses = accesses, !.created = created]

\* os.path.isfile, then open(file_path, 'rb'), read(16) and the comparison
IsSqliteMutant(exists, bytes) == exists /\ Slice(bytes, 0, 8) = Slice(SQLITE_MAGIC, 0, 8)

is_sqlite_database(exists, bytes) == exists /\ Slice(bytes, 0, 16) = SQLITE_MAGIC

\* whether the SQL engine accepts the file as a database when it reads its header
EngineOpens(bytes) ==
    /\ Len(bytes) >= DB_HEADER_SIZE
    /\ Slice(bytes, 0, 16) = SQLITE_MAGIC

is_sqlite_accesses(exists) == IF exists THEN {<<"db", "read">>} ELSE {}

\* the files shutil.copy2 puts into the scratch directory
SnapshotFiles(wal, shm) ==
    {"db"} \cup (IF wal THEN {"wal"} ELSE {}) \cup (IF shm THEN {"shm"} ELSE {})

SnapshotAccesses(wal, shm) == {<<f, "copy">> : f \in SnapshotFiles(wal, shm)}

\* cursor.fetchmany(MAX_ROWS) on a result set of avail rows
fetchmany(avail, n) == IF avail < n THEN avail ELSE n

HasMoreMutant(row_count) == row_count > MAX_ROWS

HasMore(row_count) == row_count = MAX_ROWS

\* the connection execute_query runs the query on
QueryConnectMutant == <<"db", "sql_rw">>

QueryConnect == <<"tmp", "sql_ro">>

\* the denylist test moved behind the snapshot
ValidateLateMutant(exists, bytes, wal, shm, q0, fault, avail, d) ==
    LET q == strip(q0)
        probe == is_sqlite_accesses(exists)
        snap == probe \cup SnapshotAccesses(wal, shm)
        files == SnapshotFiles(wal, shm)
        row_count == fetchmany(avail, MAX_ROWS)
    IN  IF ~is_sqlite_database(exists, bytes)
        THEN [call |-> Raised("execute_query", "NotASqliteDatabase", probe, {}), left |-> {}]
        ELSE IF q = <<>>
        THEN [call |-> Raised("execute_query", "EmptyQuery", probe, {}), left |-> {}]
        ELSE IF HasMultipleStatements(q)
        THEN [call |-> Raised("execute_query", "MultipleStatements", probe, {}), left |-> {}]
        ELSE IF fault = "copy"
        THEN [call |-> Raised("execute_query", "PathCopyFailure",
                              probe \cup {<<"db", "copy">>}, {d}),
              left |-> {[id |-> d, files |-> {}]}]
        ELSE IF HasForbiddenKeyword(q)
        THEN [call |-> Raised("execute_query", "ForbiddenKeyword", snap, {d}), left |-> {}]
        ELSE IF fault = "open" \/ ~EngineOpens(bytes)
        THEN [call |-> Raised("execute_query", "QueryExecutionError",
                              snap \cup {QueryConnect}, {d}),
              left |-> {[id |-> d, files |-> files]}]
        ELSE IF fault = "query"
        THEN [call |-> [Raised("execute_query", "QueryExecutionError",
                               snap \cup {QueryConnect}, {d}) EXCEPT !.executed = TRUE],
              left |-> {[id |-> d, files |-> files]}]
        ELSE [call |-> [Returned("execute_query", snap \cup {QueryConnect}, {d})
                            EXCEPT !.executed = TRUE,
                                   !.avail = avail,
                                   !.nrows = row_count,
                                   !.row_count = row_count,
                                   !.has_more = HasMore(row_count)],
              left |-> {}]

(***************************************************************************)
(* execute_query: [call, left], the call's record and the scratch           *)
(* directories it leaves on disk.                                          *)
(***************************************************************************)
execute_query(exists, bytes, wal, shm, q0, fault, avail, d) ==
    LET q == strip(q0)
        probe == is_sqlite_accesses(exists)
        snap == probe \cup SnapshotAccesses(wal, shm)
        files == SnapshotFiles(wal, shm)
        row_count == fetchmany(avail, MAX_ROWS)
    IN  IF ~is_sqlite_database(exists, bytes)
        THEN [call |-> Raised("execute_query", "NotASqliteDatabase", probe, {}), left |-> {}]
        ELSE IF q = <<>>
        THEN [call |-> Raised("execute_query", "EmptyQuery", probe, {}), left |-> {}]
        ELSE IF HasMultipleStatements(q)
        THEN [call |-> Raised("execute_query", "MultipleStatements", probe, {}), left |-> {}]
        ELSE IF HasForbiddenKeyword(q)
        THEN [call |-> Raised("execute_query", "ForbiddenKeyword", probe, {}), left |-> {}]
        ELSE IF fault = "copy"
        THEN [call |-> Raised("execute_query", "PathCopyFailure",
                              probe \cup {<<"db", "copy">>}, {d}),
              left |-> {[id |-> d, files |-> {}]}]
        ELSE IF fault = "open" \/ ~EngineOpens(bytes)
        THEN [call |-> Raised("execute_query", "QueryExecutionError",
                              snap \cup {QueryConnect}, {d}),
              left |-> {[id |-> d, files |-> files]}]
        ELSE IF fault = "query"
        THEN [call |-> [Raised("execute_query", "QueryExecutionError",
                               snap \cup {QueryConnect}, {d}) EXCEPT !.executed = TRUE],
              left |-> {[id |-> d, files |-> files]}]
        ELSE [call |-> [Returned("execute_query", snap \cup {QueryConnect}, {d})
                            EXCEPT !.executed = TRUE,
                                   !.avail = avail,
                                   !.nrows = row_count,
                                   !.row_count = row_count,
                                   !.has_more = HasMore(row_count)],
              left |-> {}]

(***************************************************************************)
(* What a call's SQL connections can do to the original files.  A          *)
(* write-capable connection to a database that has a write-ahead log may   *)
(* checkpoint it when it closes: the database file is rewritten and the    *)
(* log is kept or removed.  Copies and 'rb' opens change nothing.          *)
(***************************************************************************)
OrigAfter(accesses, db, wal) ==
    IF <<"db", "sql_rw">> \in accesses /\ wal
    THEN {[db |-> db, wal |-> TRUE],
          [db |-> [hash |-> db.hash + 1, mtime |-> db.mtime + 1], wal |-> TRUE],
          [db |-> [hash |-> db.hash + 1, mtime |-> db.mtime + 1], wal |-> FALSE]}
    ELSE {[db |-> db, wal |-> wal]}

\* A call ends: its record, the directories it left, its effect on the originals.
Finish(r) ==
    /\ lastCall' = r.call
    /\ tmpDirs' = tmpDirs \cup r.left
    /\ nextTmp' = nextTmp + Cardinality(r.call.created)
    /\ \E o \in OrigAfter(r.call.accesses, dbStamp, hasWal) :
           /\ dbStamp' = o.db
           /\ hasWal' = o.wal
           \* a run is followed only while the original is intact: what later
           \* calls would read from a rewritten database is not modelled
           /\ callsLeft' = IF o.db = dbStamp THEN callsLeft - 1 ELSE 0
    /\ UNCHANGED <<dbExists, dbBytes, walBytes, hasShm, query, procs, lastStep>>

NoResult == <<>>

ExecuteQuery ==
    /\ callsLeft > 0
    /\ \E fault \in Faults, avail \in AvailRows :
           Finish(execute_query(dbExists, dbBytes, hasWal, hasShm, query, fault, avail,
                                nextTmp))
    /\ result' = NoResult
    /\ UNCHANGED <<built, wal_info, parser, varintIn, scan_results>>

\* the connection analyze_schema reads the schema on
SchemaConnect == <<"tmp", "sql_ro">>

\* analyze_schema: [call, left]
analyze_schema(exists, bytes, wal, shm, fault, d) ==
    LET probe == is_sqlite_accesses(exists)
        snap == probe \cup SnapshotAccesses(wal, shm)
        files == SnapshotFiles(wal, shm)
    IN  IF ~is_sqlite_database(exists, bytes)
        THEN [call |-> Raised("analyze_schema", "NotASqliteDatabase", probe, {}), left |-> {}]
        ELSE IF fault = "copy"
        THEN [call |-> Raised("analyze_schema", "PathCopyFailure",
                              probe \cup {<<"db", "copy">>}, {d}),
              left |-> {[id |-> d, files |-> {}]}]
        ELSE IF fault \in {"open", "query"} \/ ~EngineOpens(bytes)
        THEN [call |-> Raised("analyze_schema", "DatabaseError",
                              snap \cup {SchemaConnect}, {d}),
              left |-> {[id |-> d, files |-> files]}]
        ELSE [call |-> Returned("analyze_schema", snap \cup {SchemaConnect}, {d}),
              left |-> {}]

AnalyzeSchema ==
    /\ callsLeft > 0
    /\ \E fault \in Faults :
           Finish(analyze_schema(dbExists, dbBytes, hasWal, hasShm, fault, nextTmp))
    /\ result' = NoResult
    /\ UNCHANGED <<built, wal_info, parser, varintIn, scan_results>>

\* find_databases on a directory whose one candidate is the database: every
\* failure is logged, the list is returned
find_databases(exists, bytes) ==
    IF is_sqlite_database(exists, bytes)
    THEN [call |-> Returned("find_databases", {<<"db", "read">>, <<"db", "sql_rw">>}, {}),
          left |-> {}]
    ELSE [call |-> Returned("find_databases", is_sqlite_accesses(exists), {}), left |-> {}]

FindDatabases ==
    /\ callsLeft > 0
    /\ Finish(find_databases(dbExists, dbBytes))
    /\ result' = NoResult
    /\ UNCHANGED <<built, wal_info, parser, varintIn, scan_results>>

\* recover_deleted_records of analyzer.py
analyzer_recover_deleted_records(exists, bytes, fault) ==
    IF ~is_sqlite_database(exists, bytes)
    THEN [call |-> Raised("analyzer_recover_deleted_records", "NotASqliteDatabase",
                          is_sqlite_accesses(exists), {}),
          left |-> {}]
    ELSE IF fault \in {"open", "query"} \/ ~EngineOpens(bytes)
    THEN [call |-> Raised("analyzer_recover_deleted_records", "DatabaseError",
                          {<<"db", "read">>, <<"db", "sql_rw">>}, {}),
          left |-> {}]
    ELSE [call |-> Returned("analyzer_recover_deleted_records",
                            {<<"db", "read">>, <<"db", "sql_rw">>}, {}),
          left |-> {}]

AnalyzerRecoverDeletedRecords ==
    /\ callsLeft > 0
    /\ \E fault \in {"none", "open"} :
           Finish(analyzer_recover_deleted_records(dbExists, dbBytes, fault))
    /\ result' = NoResult
    /\ UNCHANGED <<built, wal_info, parser, varintIn, scan_results>>

(***************************************************************************)
(* Concurrent analyses.  analyze_schema and execute_query take the same    *)
(* file-system steps: tempfile.mkdtemp(), the copies, the read-only        *)
(* connection to the copy, then the removal of the copies and of the       *)
(* directory.  Each analysis keeps its temp_dir in a local variable; an    *)
(* exception at any step after mkdtemp ends it with the directory left.    *)
(***************************************************************************)
Procs == {1, 2}

NoDir == 0 - 1

IdleProc == [pc |-> "idle", dir |-> NoDir, op |-> "none"]

NoStep == [proc |-> 0, kind |-> "none", dir |-> NoDir, file |-> "none"]

DirNames == 0..(MaxDirNames - 1)

DirsOnDisk == {t.id : t \in tmpDirs}

\* the names tempfile.mkdtemp() may return: it creates a directory that did not exist
MkdtempMutant(existing) == DirNames

Mkdtemp(existing) == DirNames \ existing

FilesOf(d) == UNION {t.files : t \in {u \in tmpDirs : u.id = d}}

\* the scratch directories after the files of directory d became files
WithFiles(d, files) == {t \in tmpDirs : t.id # d} \cup {[id |-> d, files |-> files]}

Step(p, kind, d, file) == [proc |-> p, kind |-> kind, dir |-> d, file |-> file]

\* the position after the copy of file f
AfterCopy(f) ==
    IF f = "db" THEN (IF hasWal THEN "copy_wal" ELSE IF hasShm THEN "copy_shm" ELSE "open")
    ELSE IF f = "wal" THEN (IF hasShm THEN "copy_shm" ELSE "open")
    ELSE "open"

\* the position after the removal of the copy of file f
AfterRemove(d, f) ==
    IF f = "db" THEN (IF "wal" \in FilesOf(d) THEN "rm_wal"
                      ELSE IF "shm" \in FilesOf(d) THEN "rm_shm" ELSE "rmdir")
    ELSE IF f = "wal" THEN (IF "shm" \in FilesOf(d) THEN "rm_shm" ELSE "rmdir")
    ELSE "rmdir"

ConcUnchanged ==
    UNCHANGED <<dbExists, dbBytes, dbStamp, hasWal, walBytes, hasShm, nextTmp, query,
                lastCall, result, built, wal_info, parser, varintIn, scan_results>>

\* the magic probe and tempfile.mkdtemp()
StartAnalysis(p) ==
    /\ callsLeft > 0
    /\ procs[p].pc = "idle"
    /\ is_sqlite_database(dbExists, dbBytes)
    /\ \E op \in {"analyze_schema", "execute_query"}, d \in Mkdtemp(DirsOnDisk) :
           /\ procs' = [procs EXCEPT ![p] = [pc |-> "copy_db", dir |-> d, op |-> op]]
           /\ tmpDirs' = WithFiles(d, FilesOf(d))
           /\ lastStep' = Step(p, "mkdtemp", d, "none")
    /\ callsLeft' = callsLeft - 1
    /\ ConcUnchanged

\* shutil.copy2 of the database, of the -wal, of the -shm into temp_dir
CopyStep(p) ==
    /\ \E f \in {"db", "wal", "shm"} :
           /\ procs[p].pc = "copy_" \o f
           /\ procs' = [procs EXCEPT ![p].pc = AfterCopy(f)]
           /\ tmpDirs' = WithFiles(procs[p].dir, FilesOf(procs[p].dir) \cup {f})
           /\ lastStep' = Step(p, "write", procs[p].dir, f)
    /\ UNCHANGED callsLeft
    /\ ConcUnchanged

\* sqlite3.connect(file:<temp_db_path>?mode=ro) and the queries on it
OpenStep(p) ==
    /\ procs[p].pc = "open"
    /\ procs' = [procs EXCEPT ![p].pc = "rm_db"]
    /\ lastStep' = Step(p, "read", procs[p].dir, "db")
    /\ UNCHANGED <<tmpDirs, callsLeft>>
    /\ ConcUnchanged

\* os.remove of the copies
RemoveStep(p) ==
    /\ \E f \in {"db", "wal", "shm"} :
           /\ procs[p].pc = "rm_" \o f
           /\ tmpDirs' = WithFiles(procs[p].dir, FilesOf(procs[p].dir) \ {f})
           /\ procs' = [procs EXCEPT ![p].pc = AfterRemove(procs[p].dir, f)]
           /\ lastStep' = Step(p, "remove", procs[p].dir, f)
    /\ UNCHANGED callsLeft
    /\ ConcUnchanged

\* os.rmdir(temp_dir): it fails on a directory that is not empty, the failure is logged
RmdirStep(p) ==
    /\ procs[p].pc = "rmdir"
    /\ tmpDirs' = IF FilesOf(procs[p].dir) = {}
                  THEN {t \in tmpDirs : t.id # procs[p].dir}
                  ELSE tmpDirs
    /\ procs' = [procs EXCEPT ![p] = IdleProc]
    /\ lastStep' = Step(p, "rmdir", procs[p].dir, "none")
    /\ UNCHANGED callsLeft
    /\ ConcUnchanged

\* an exception in the try body: logged and raised again, nothing is removed
RaiseStep(p) ==
    /\ procs[p].pc \in {"copy_db", "copy_wal", "copy_shm", "open"}
    /\ procs' = [procs EXCEPT ![p] = IdleProc]
    /\ lastStep' = Step(p, "raise", procs[p].dir, "none")
    /\ UNCHANGED <<tmpDirs, callsLeft>>
    /\ ConcUnchanged

(***************************************************************************)
(* WALAnalyzer.  wal_info.header is <<>> for None and <<h>> for a header.  *)
(***************************************************************************)
\* WALAnalyzer.__init__
FreshWalInfo ==
    [header |-> <<>>, frames |-> <<>>, valid |-> FALSE, big_endian |-> FALSE,
     page_size |-> 0, checkpoint_seq |-> 0, salt |-> <<0, 0>>, frame_count |-> 0]

NoAnalyzer ==
    /\ built = FALSE
    /\ wal_info = FreshWalInfo

\* struct.unpack(f"{endian}I", b)
Unpack(endian, b) == IF endian = ">" THEN U32BE(b) ELSE U32LE(b)

\* the k-th (from 0) 32-bit field of data
Field(endian, data, k) == Unpack(endian, Slice(data, 4 * k, 4 * k + 4))

\* the byte order _analyze_header picks for a magic number
EndianMutant(magic) == "<"

EndianOf(magic) == IF magic = WAL_MAGIC_BE THEN ">" ELSE "<"

_analyze_header(info, wal) ==
    LET header_data == Slice(wal, 0, WAL_HEADER_SIZE)
        magic == U32LE(Slice(header_data, 0, 4))
        endian == EndianOf(magic)
    IN  IF Len(header_data) < WAL_HEADER_SIZE
        THEN [info EXCEPT !.valid = FALSE]
        ELSE IF magic # WAL_MAGIC_BE /\ magic # WAL_MAGIC
        THEN [info EXCEPT !.valid = FALSE]
        ELSE [info EXCEPT
                 !.big_endian = (magic = WAL_MAGIC_BE),
                 !.header = <<[magic |-> Field(endian, header_data, 0),
                               file_format |-> Field(endian, header_data, 1),
                               page_size |-> Field(endian, header_data, 2),
                               checkpoint_seq |-> Field(endian, header_data, 3),
                               salt |-> <<Field(endian, header_data, 4),
                                          Field(endian, header_data, 5)>>,
                               checksum |-> Field(endian, header_data, 6)]>>,
                 !.page_size = Field(endian, header_data, 2),
                 !.checkpoint_seq = Field(endian, header_data, 3),
                 !.salt = <<Field(endian, header_data, 4), Field(endian, header_data, 5)>>,
                 !.valid = TRUE]

\* the while loop of _analyze_frames, from file position pos
RECURSIVE FrameLoopMutant(_, _, _, _, _, _)
FrameLoopMutant(wal, pos, frames, frame_count, page_size, endian) ==
    LET frame_header == Slice(wal, pos, pos + FRAME_HEADER_SIZE)
    IN  IF Len(frame_header) < FRAME_HEADER_SIZE
        THEN [frames |-> frames, frame_count |-> frame_count]
        ELSE FrameLoopMutant(wal, pos + FRAME_HEADER_SIZE + page_size,
                             Append(frames,
                                    [page_number |-> Field(endian, frame_header, 0),
                                     commit_seq |-> Field(endian, frame_header, 1),
                                     salt |-> <<Field(endian, frame_header, 2),
                                                Field(endian, frame_header, 3)>>,
                                     checksum |-> <<Field(endian, frame_header, 4),
                                                    Field(endian, frame_header, 5)>>,
                                     offset |-> WAL_HEADER_SIZE
                                                + frame_count * (FRAME_HEADER_SIZE + page_size),
                                     size |-> FRAME_HEADER_SIZE + page_size]),
                             frame_count + 1, page_size, endian)

RECURSIVE FrameLoop(_, _, _, _, _, _)
FrameLoop(wal, pos, frames, frame_count, page_size, endian) ==
    LET frame_header == Slice(wal, pos, pos + FRAME_HEADER_SIZE)
        page_content == Slice(wal, pos + FRAME_HEADER_SIZE,
                              pos + FRAME_HEADER_SIZE + page_size)
        frame_info ==
            [page_number |-> Field(endian, frame_header, 0),
             commit_seq |-> Field(endian, frame_header, 1),
             salt |-> <<Field(endian, frame_header, 2), Field(endian, frame_header, 3)>>,
             checksum |-> <<Field(endian, frame_header, 4), Field(endian, frame_header, 5)>>,
             offset |-> WAL_HEADER_SIZE + frame_count * (FRAME_HEADER_SIZE + page_size),
             size |-> FRAME_HEADER_SIZE + page_size]
    IN  IF Len(frame_header) < FRAME_HEADER_SIZE
        THEN [frames |-> frames, frame_count |-> frame_count]
        ELSE IF Len(page_content) < page_size
        THEN [frames |-> frames, frame_count |-> frame_count]
        ELSE FrameLoop(wal, pos + FRAME_HEADER_SIZE + page_size,
                       Append(frames, frame_info), frame_count + 1, page_size, endian)

_analyze_frames(info, wal) ==
    LET r == FrameLoop(wal, WAL_HEADER_SIZE, info.frames, 0, info.page_size,
                       IF info.big_endian THEN ">" ELSE "<")
    IN  [info EXCEPT !.frames = r.frames, !.frame_count = r.frame_count]

WalFaults == {"none", "copy", "open"}

\* WALAnalyzer.analyze: [call, left, info], info the analyzer's wal_info afterwards
AnalyzeMutant(info, exists, wal_exists, wal, fault, d) ==
    IF fault = "copy" \/ ~exists \/ ~wal_exists
    THEN [call |-> Raised("analyze", "PathCopyFailure", {<<"db", "copy">>}, {d}),
          left |-> {[id |-> d, files |-> {}]},
          info |-> info]
    ELSE [call |-> Returned("analyze",
                            {<<"db", "copy">>, <<"wal", "copy">>, <<"tmp", "read">>}, {d}),
          left |-> {},
          info |-> _analyze_frames(_analyze_header(info, wal), wal)]

analyze(info, exists, wal_exists, wal, fault, d) ==
    IF fault = "copy" \/ ~exists
    THEN [call |-> Raised("analyze", "PathCopyFailure", {<<"db", "copy">>}, {d}),
          left |-> {[id |-> d, files |-> {}]},
          info |-> info]
    ELSE IF ~wal_exists
    THEN [call |-> Raised("analyze", "PathCopyFailure",
                          {<<"db", "copy">>, <<"wal", "copy">>}, {d}),
          left |-> {[id |-> d, files |-> {"db"}]},
          info |-> info]
    ELSE LET h == _analyze_header(info, wal)
         IN  [call |-> Returned("analyze",
                                {<<"db", "copy">>, <<"wal", "copy">>, <<"tmp", "read">>}, {d}),
              left |-> {},
              info |-> IF h.valid THEN _analyze_frames(h, wal) ELSE h]

\* "if not self.wal_info['valid']: self.analyze()" at the head of the other operations
AnalyzeIfNeeded(info, exists, wal_exists, wal, fault, d) ==
    IF info.valid
    THEN [call |-> Returned("analyze", {}, {}), left |-> {}, info |-> info]
    ELSE analyze(info, exists, wal_exists, wal, fault, d)

\* PRAGMA page_size as the SQL engine answers it from the header of the copy
EnginePageSize(db) ==
    LET stored == U16BE(Slice(db, 16, 18))
    IN  IF stored = 1 THEN 65536 ELSE stored

\* f.seek(100 + (page_number - 1) * db_page_size)
SeekOffset(page_number, db_page_size) == DB_HEADER_SIZE + (page_number - 1) * db_page_size

\* the page of the database copy a frame is compared with
DbPageData(db, frame, db_page_size) ==
    Slice(db, SeekOffset(frame.page_number, db_page_size),
          SeekOffset(frame.page_number, db_page_size) + db_page_size)

\* the page image of a frame, read again from self.wal_path
WalPageData(wal, frame, page_size) ==
    Slice(wal, frame.offset + FRAME_HEADER_SIZE, frame.offset + FRAME_HEADER_SIZE + page_size)

\* the comparison loop of compare_with_db, from frame k
RECURSIVE ModifiedPages(_, _, _, _, _, _)
ModifiedPages(frames, k, db, db_page_size, wal, page_size) ==
    IF k > Len(frames) THEN <<>>
    ELSE (IF DbPageData(db, frames[k], db_page_size) # WalPageData(wal, frames[k], page_size)
          THEN <<[page_number |-> frames[k].page_number,
                  commit_seq |-> frames[k].commit_seq,
                  status |-> "modified"]>>
          ELSE <<>>)
         \o ModifiedPages(frames, k + 1, db, db_page_size, wal, page_size)

\* WALAnalyzer.compare_with_db: [call, left, info, result]
compare_with_db(info, exists, db, wal_exists, wal, fault, d) ==
    LET a == AnalyzeIfNeeded(info, exists, wal_exists, wal, fault, d)
        temp_dir == d + Cardinality(a.call.created)
        made == a.call.created \cup {temp_dir}
        i == a.info
        db_page_size == EnginePageSize(db)
        copied == a.call.accesses \cup {<<"db", "copy">>}
        opened == copied \cup {<<"tmp", "sql_rw">>}
        compared == opened \cup {<<"tmp", "read">>} \cup
                    (IF i.frames # <<>> THEN {<<"wal", "read">>} ELSE {})
    IN  IF a.call.outcome = "error"
        THEN [call |-> [a.call EXCEPT !.op = "compare_with_db"], left |-> a.left,
              info |-> i, result |-> NoResult]
        ELSE IF ~exists \/ (fault = "copy" /\ info.valid)
        THEN \* nothing was copied: os.remove raises in the finally block, os.rmdir is skipped
             [call |-> Raised("compare_with_db", "PathCopyFailure", copied, made),
              left |-> {[id |-> temp_dir, files |-> {}]},
              info |-> i, result |-> NoResult]
        ELSE IF fault = "open" \/ ~EngineOpens(db)
        THEN [call |-> Raised("compare_with_db", "DatabaseError", opened, made),
              left |-> {}, info |-> i, result |-> NoResult]
        ELSE IF i.frames # <<>> /\ ~wal_exists
        THEN [call |-> Raised("compare_with_db", "FileNotFoundError", compared, made),
              left |-> {}, info |-> i, result |-> NoResult]
        ELSE IF \E k \in 1..Len(i.frames) :
                    SeekOffset(i.frames[k].page_number, db_page_size) < 0
        THEN [call |-> Raised("compare_with_db", "OSError", compared, made),
              left |-> {}, info |-> i, result |-> NoResult]
        ELSE [call |-> Returned("compare_with_db", compared, made),
              left |-> {},
              info |-> i,
              result |-> [page_size |-> [db |-> db_page_size, wal |-> i.page_size],
                          frame_count |-> i.frame_count,
                          modified_pages |->
                              ModifiedPages(i.frames, 1, db, db_page_size, wal, i.page_size)]]

\* the records extract_deleted_records lists for one table
RECURSIVE PotentialRecords(_, _)
PotentialRecords(frames, k) ==
    IF k > Len(frames) THEN <<>>
    ELSE <<[frame |-> frames[k].page_number, commit_seq |-> frames[k].commit_seq]>>
         \o PotentialRecords(frames, k + 1)

\* WALAnalyzer.extract_deleted_records: [call, left, info, result]
extract_deleted_records(info, exists, db, wal_exists, wal, fault, d) ==
    LET a == AnalyzeIfNeeded(info, exists, wal_exists, wal, fault, d)
        temp_dir == d + Cardinality(a.call.created)
        made == a.call.created \cup {temp_dir}
        i == a.info
        opened == a.call.accesses \cup {<<"db", "sql_rw">>, <<"tmp", "sql_rw">>}
    IN  IF a.call.outcome = "error"
        THEN [call |-> [a.call EXCEPT !.op = "extract_deleted_records"], left |-> a.left,
              info |-> i, result |-> NoResult]
        ELSE IF fault = "open" \/ ~exists \/ ~EngineOpens(db)
        THEN \* the finally block removes every file and the directory
             [call |-> Raised("extract_deleted_records", "DatabaseError", opened, made),
              left |-> {}, info |-> i, result |-> NoResult]
        ELSE [call |-> Returned("extract_deleted_records", opened, made),
              left |-> {},
              info |-> i,
              result |-> [records |-> PotentialRecords(i.frames, 1)]]

Construct ==
    /\ callsLeft > 0
    /\ IF hasWal
       THEN /\ Finish([call |-> Returned("WALAnalyzer", {}, {}), left |-> {}])
            /\ built' = TRUE
            /\ wal_info' = FreshWalInfo
       ELSE /\ Finish([call |-> Raised("WALAnalyzer", "FileNotFoundError", {}, {}),
                       left |-> {}])
            /\ UNCHANGED <<built, wal_info>>
    /\ result' = NoResult
    /\ UNCHANGED <<parser, varintIn, scan_results>>

Analyze ==
    /\ callsLeft > 0
    /\ built
    /\ \E fault \in WalFaults :
           LET r == analyze(wal_info, dbExists, hasWal, walBytes, fault, nextTmp)
           IN  /\ Finish(r)
               /\ wal_info' = r.info
               /\ result' = IF r.call.outcome = "ok" THEN r.info ELSE NoResult
    /\ UNCHANGED <<built, parser, varintIn, scan_results>>

CompareWithDb ==
    /\ callsLeft > 0
    /\ built
    /\ \E fault \in WalFaults :
           LET r == compare_with_db(wal_info, dbExists, dbBytes, hasWal, walBytes, fault,
                                    nextTmp)
           IN  /\ Finish(r)
               /\ wal_info' = r.info
               /\ result' = r.result
    /\ UNCHANGED <<built, parser, varintIn, scan_results>>

ExtractDeletedRecords ==
    /\ callsLeft > 0
    /\ built
    /\ \E fault \in WalFaults :
           LET r == extract_deleted_records(wal_info, dbExists, dbBytes, hasWal, walBytes,
                                            fault, nextTmp)
           IN  /\ Finish(r)
               /\ wal_info' = r.info
               /\ result' = r.result
    /\ UNCHANGED <<built, parser, varintIn, scan_results>>

(***************************************************************************)
(* SQLiteFreelistParser.                                                   *)
(***************************************************************************)
\* SQLiteFreelistParser.__init__ before _init_database_metadata
FreshParser == [page_size |-> 0, free_pages |-> <<>>]

NoParser == parser = FreshParser

NoVarint == varintIn = [data |-> <<>>, offset |-> 0]

\* the byte offset (page - 1) * page_size, or the file length when it lies past the end
PageOffset(db, page, page_size) ==
    IF page - 1 >= Len(db) THEN Len(db) ELSE Min((page - 1) * page_size, Len(db))

\* the iterations of "for i in range(num_leaves)" that pass the bounds check
\* leaf_page_offset + 4 <= page_size; the others do nothing
LeafSlots(num_leaves, page_size) ==
    IF page_size < 12 THEN 0 ELSE Min(num_leaves, (page_size - 12) \div 4 + 1)

\* the leaf loop from slot i: [pages, ok]; ok is FALSE when a read came back short
\* and struct.unpack raised
\* (the loop runs up to the first short read and appends every word above 0)
LeafLoop(db, base, i, slots, pages) ==
    LET word(k) == Slice(db, base + 8 + 4 * k, base + 12 + 4 * k)
        short == {k \in i..(slots - 1) : Len(word(k)) < 4}
        stop == IF short = {} THEN slots
                ELSE CHOOSE k \in short : \A j \in short : k <= j
        words == [n \in 1..(stop - i) |-> U32BE(word(i + n - 1))]
    IN  [pages |-> pages \o SelectSeq(words, LAMBDA w : w > 0), ok |-> short = {}]

\* whether a trunk that was entered at recursion depth `depth` may be visited
WithinDepth(depth) == depth <= MaxDepth

\* _collect_freelist_pages(trunk_page): self.free_pages afterwards.  Nothing in
\* the code stops the recursion: on a cyclic chain it ends when the interpreter
\* raises RecursionError (or the open fails for want of file descriptors), which
\* the innermost "except Exception" swallows.
RECURSIVE _collect_freelist_pages(_, _, _, _, _)
_collect_freelist_pages(db, page_size, trunk_page, free_pages, depth) ==
    LET base == PageOffset(db, trunk_page, page_size)
        trunk_data == Slice(db, base, base + 8)
        num_leaves == U32BE(Slice(trunk_data, 4, 8))
        leaves == LeafLoop(db, base, 0, LeafSlots(num_leaves, page_size),
                           Append(free_pages, trunk_page))
        next_trunk_offset == 8 + num_leaves * 4
        next_word == Slice(db, base + next_trunk_offset, base + next_trunk_offset + 4)
    IN  IF ~WithinDepth(depth) THEN free_pages
        ELSE IF Len(trunk_data) < 8 THEN free_pages
        ELSE IF ~leaves.ok THEN leaves.pages
        ELSE IF num_leaves > page_size \/ next_trunk_offset + 4 > page_size
        THEN leaves.pages
        ELSE IF Len(next_word) < 4 THEN leaves.pages
        ELSE IF U32BE(next_word) > 0
        THEN _collect_freelist_pages(db, page_size, U32BE(next_word), leaves.pages,
                                     depth + 1)
        ELSE leaves.pages

\* _read_database_header: the parser afterwards; engine_page_size is what
\* PRAGMA page_size answered
_read_database_header(db, engine_page_size) ==
    LET header_data == Slice(db, 0, DB_HEADER_SIZE)
        stored == U16BE(Slice(header_data, 16, 18))
        page_size == IF stored = 1 THEN 65536 ELSE stored
        freelist_trunk_page == U32BE(Slice(header_data, 32, 36))
        total_freelist_pages == U32BE(Slice(header_data, 36, 40))
        used == IF page_size > 0 THEN page_size ELSE engine_page_size
    IN  IF Len(header_data) < 40
        THEN [page_size |-> engine_page_size, free_pages |-> <<>>]
        ELSE [page_size |-> used,
              free_pages |->
                  IF freelist_trunk_page > 0 /\ total_freelist_pages > 0
                  THEN _collect_freelist_pages(db, used, freelist_trunk_page, <<>>, 1)
                  ELSE <<>>]

\* SQLiteFreelistParser(db_path), that is _init_database_metadata:
\* [call, left, parser]; the call is "ok" when the constructor returned
NewParser(exists, db, wal, fault, d) ==
    LET snap == {<<"db", "copy">>} \cup (IF wal THEN {<<"wal", "copy">>} ELSE {})
        files == {"db"} \cup (IF wal THEN {"wal"} ELSE {})
    IN  IF fault = "copy" \/ ~exists
        THEN [call |-> Raised("SQLiteFreelistParser", "PathCopyFailure",
                              {<<"db", "copy">>}, {d}),
              left |-> {[id |-> d, files |-> {}]},
              parser |-> FreshParser]
        ELSE IF fault \in {"open", "query"} \/ ~EngineOpens(db)
        THEN [call |-> Raised("SQLiteFreelistParser", "DatabaseError",
                              snap \cup {<<"tmp", "sql_ro">>}, {d}),
              left |-> {[id |-> d, files |-> files]},
              parser |-> FreshParser]
        ELSE [call |-> Returned("SQLiteFreelistParser",
                                snap \cup {<<"tmp", "sql_ro">>, <<"db", "read">>}, {d}),
              left |-> {},
              parser |-> _read_database_header(db, EnginePageSize(db))]

_get_page_type(page_data) ==
    IF Len(page_data) < 8 THEN 0
    ELSE IF page_data[1] \in {2, 5, 10, 13} THEN page_data[1]
    ELSE 0

(***************************************************************************)
(* _decode_varint.  The value saturates at Huge (Python does not overflow). *)
(***************************************************************************)
\* the bound of "for i in range(9)"
RangeMutant == 9 + 1

VarintRange == 9

\* the body of "for i in range(9)" from iteration i: [value, bytes_read, examined],
\* examined the number of bytes of data the loop looked at
\* (the loop without the mask 0x7F)
RECURSIVE VarintLoopMutant(_, _, _, _)
VarintLoopMutant(data, offset, i, value) ==
    IF i >= VarintRange THEN [value |-> 0, bytes_read |-> 1, examined |-> i]
    ELSE IF offset + i >= Len(data) THEN [value |-> 0, bytes_read |-> 1, examined |-> i]
    ELSE LET byte == data[offset + i + 1]
             shifted == IF value >= Huge \div 128 THEN Huge ELSE value * 128 + byte
         IN  IF byte < 128
             THEN [value |-> shifted, bytes_read |-> i + 1, examined |-> i + 1]
             ELSE VarintLoopMutant(data, offset, i + 1, shifted)

RECURSIVE VarintLoop(_, _, _, _)
VarintLoop(data, offset, i, value) ==
    IF i >= VarintRange THEN [value |-> 0, bytes_read |-> 1, examined |-> i]
    ELSE IF offset + i >= Len(data) THEN [value |-> 0, bytes_read |-> 1, examined |-> i]
    ELSE LET byte == data[offset + i + 1]
             shifted == IF value >= Huge \div 128 THEN Huge ELSE value * 128 + (byte % 128)
         IN  IF byte < 128
             THEN [value |-> shifted, bytes_read |-> i + 1, examined |-> i + 1]
             ELSE VarintLoop(data, offset, i + 1, shifted)

_decode_varint(data, offset) == VarintLoop(data, offset, 0, 0)

DecodeVarint ==
    /\ callsLeft > 0
    /\ Finish([call |-> Returned("_decode_varint", {}, {}), left |-> {}])
    /\ result' = _decode_varint(varintIn.data, varintIn.offset)
    /\ UNCHANGED <<built, wal_info, parser, varintIn, scan_results>>

(***************************************************************************)
(* Text in pages.  A decoded text is a sequence of code points.  The files *)
(* of the model hold bytes below 128, on which UTF-8, ASCII and Latin-1    *)
(* decode alike; bytes from 128 on stand for bytes no UTF-8 sequence holds *)
(* (0xF8..0xFF), which errors='ignore' drops.                              *)
(***************************************************************************)
\* the encodings _extract_text_fragments and _extract_text_from_payload try,
\* self.encoding ('UTF-8' as PRAGMA encoding answers it) first
Encodings == <<"UTF-8", "utf-8", "utf-16", "ascii", "latin1">>

IsAscii(b) == b < 128

\* data.decode(encoding, errors='ignore'); utf-16 without a byte order mark is
\* little-endian and an odd last byte is dropped
decode(data, encoding) ==
    IF encoding = "latin1" THEN data
    ELSE IF encoding = "utf-16"
    THEN [k \in 1..(Len(data) \div 2) |-> data[2 * k - 1] + 256 * data[2 * k]]
    ELSE SelectSeq(data, IsAscii)

\* the class [ -~]
Printable(c) == c \in 32..126

\* the class [a-zA-Z0-9]
Alnum(c) == c \in 48..57 \/ c \in 65..90 \/ c \in 97..122

\* re.search(r'[a-zA-Z0-9]', part)
HasAlnum(part) == \E i \in 1..Len(part) : Alnum(part[i])

\* the class [\x00-\x1F\x7F-\xFF]
Separator(c) == c \in 0..31 \/ c \in 127..255

Indices(text) == [i \in 1..Len(text) |-> i]

\* the last position of the run of printable characters that holds position i
PrintableEnd(text, i) ==
    CHOOSE j \in i..Len(text) :
        /\ j = Len(text) \/ ~Printable(text[j + 1])
        /\ \A k \in i..(j - 1) : Printable(text[k + 1])

\* [m.group() for m in re.finditer(r'[ -~]{4,}', text)] with the filter
\* len(fragment) >= 4 and re.search(r'[a-zA-Z0-9]', fragment)
Finditer(text) ==
    LET IsStart(i) ==
            /\ Printable(text[i])
            /\ i = 1 \/ ~Printable(text[i - 1])
            /\ i + 3 <= Len(text)
            /\ \A k \in (i + 1)..(i + 3) : Printable(text[k])
        starts == SelectSeq(Indices(text), IsStart)
        matches == [n \in 1..Len(starts) |->
                       SubSeq(text, starts[n], PrintableEnd(text, starts[n]))]
    IN  SelectSeq(matches, HasAlnum)

\* the loop over the encodings of _extract_text_fragments, from the k-th
RECURSIVE FragmentsFrom(_, _)
FragmentsFrom(page_data, k) ==
    IF k > Len(Encodings) THEN <<>>
    ELSE LET fragments == Finditer(decode(page_data, Encodings[k]))
         IN  IF fragments # <<>> THEN fragments ELSE FragmentsFrom(page_data, k + 1)

_extract_text_fragments(page_data) == FragmentsFrom(page_data, 1)

\* the last position of the part of re.split that begins at position i
PartEnd(text, i) ==
    CHOOSE j \in i..Len(text) :
        /\ j = Len(text) \/ Separator(text[j + 1])
        /\ \A k \in i..(j - 1) : ~Separator(text[k + 1])

\* the index enumerate() gives the part that begins at position i: the number
\* of separator runs before it
PartIndex(text, i) ==
    Cardinality({j \in 1..(i - 1) : Separator(text[j]) /\ ~Separator(text[j + 1])})

\* the entries 'field_<i>' -> part of one decoding, as a set of [field, text]
SplitFields(text) ==
    LET starts == {i \in 1..Len(text) :
                      /\ ~Separator(text[i])
                      /\ i = 1 \/ Separator(text[i - 1])}
        Part(i) == SubSeq(text, i, PartEnd(text, i))
    IN  {[field |-> PartIndex(text, i), text |-> Part(i)] :
            i \in {s \in starts : Len(Part(s)) >= 3 /\ HasAlnum(Part(s))}}

\* the loop over the encodings of _extract_text_from_payload, from the k-th
RECURSIVE TextValuesFrom(_, _)
TextValuesFrom(payload_data, k) ==
    IF k > Len(Encodings) THEN {}
    ELSE LET text_values == SplitFields(decode(payload_data, Encodings[k]))
         IN  IF text_values # {} THEN text_values
             ELSE TextValuesFrom(payload_data, k + 1)

_extract_text_from_payload(payload_data) == TextValuesFrom(payload_data, 1)

\* _parse_cell: <<>> for None, <<record>> for a record
_parse_cell(page_data, cell_offset) ==
    LET payload == _decode_varint(page_data, cell_offset)
        rowid == _decode_varint(page_data, cell_offset + payload.bytes_read)
        payload_offset == cell_offset + payload.bytes_read + rowid.bytes_read
        payload_end == Min(payload_offset + payload.value, Len(page_data))
    IN  IF payload.value <= 0 THEN <<>>
        ELSE <<[rowid |-> rowid.value,
                payload_size |-> payload.value,
                values |-> _extract_text_from_payload(
                               Slice(page_data, payload_offset, payload_end))]>>

ParseCell ==
    /\ callsLeft > 0
    /\ Finish([call |-> Returned("_parse_cell", {}, {}), left |-> {}])
    /\ result' = _parse_cell(varintIn.data, varintIn.offset)
    /\ UNCHANGED <<built, wal_info, parser, varintIn, scan_results>>

\* the records of the cells at cell_pointers, from the k-th
RECURSIVE ParseCells(_, _, _)
ParseCells(page_data, cell_pointers, k) ==
    IF k > Len(cell_pointers) THEN <<>>
    ELSE (IF cell_pointers[k] >= Len(page_data) THEN <<>>
          ELSE _parse_cell(page_data, cell_pointers[k]))
         \o ParseCells(page_data, cell_pointers, k + 1)

\* a pointer outside the page ends the extraction with nothing
ExtractAbortMutant(page_data, page_size) ==
    LET num_cells == U16BE(Slice(page_data, 3, 5))
        read == Min(num_cells, (Len(page_data) - 8) \div 2)
        pointers == [i \in 1..read |-> U16BE(Slice(page_data, 6 + 2 * i, 8 + 2 * i))]
        InPage(cell_offset) == 0 < cell_offset /\ cell_offset < page_size
    IN  IF Len(page_data) < 8 \/ page_data[1] # 13 THEN <<>>
        ELSE IF SelectSeq(pointers, InPage) # pointers THEN <<>>
        ELSE ParseCells(page_data, pointers, 1)

\* _extract_records_from_page of a parser whose page size is page_size
_extract_records_from_page(page_data, page_size) ==
    LET num_cells == U16BE(Slice(page_data, 3, 5))
        read == Min(num_cells, (Len(page_data) - 8) \div 2)
        pointers == [i \in 1..read |-> U16BE(Slice(page_data, 6 + 2 * i, 8 + 2 * i))]
        InPage(cell_offset) == 0 < cell_offset /\ cell_offset < page_size
    IN  IF Len(page_data) < 8 \/ page_data[1] # 13 THEN <<>>
        ELSE ParseCells(page_data, SelectSeq(pointers, InPage), 1)

\* the page loop that skips only page numbers below 1
RECURSIVE ScanPagesMutant(_, _, _, _)
ScanPagesMutant(db, page_size, free_pages, k) ==
    IF k > Len(free_pages) THEN <<>>
    ELSE LET page_num == free_pages[k]
             base == PageOffset(db, page_num, page_size)
             page_data == Slice(db, base, base + page_size)
             page_type == _get_page_type(page_data)
         IN  (IF page_num < 1 THEN <<>>
              ELSE <<[page_number |-> page_num,
                      page_type |-> page_type,
                      recovered_records |->
                          IF page_type = 13
                          THEN _extract_records_from_page(page_data, page_size)
                          ELSE <<>>,
                      text_fragments |-> _extract_text_fragments(page_data)]>>)
             \o ScanPagesMutant(db, page_size, free_pages, k + 1)

\* the page loop of scan_freelist, from the k-th collected page.  A page
\* without text fragments has no 'text_fragments' key, which its readers take
\* for the empty list.
RECURSIVE ScanPages(_, _, _, _)
ScanPages(db, page_size, free_pages, k) ==
    IF k > Len(free_pages) THEN <<>>
    ELSE LET page_num == free_pages[k]
             base == PageOffset(db, page_num, page_size)
             page_data == Slice(db, base, base + page_size)
             page_type == _get_page_type(page_data)
         IN  (IF page_num <= 1 THEN <<>>
              ELSE <<[page_number |-> page_num,
                      page_type |-> page_type,
                      recovered_records |->
                          IF page_type = 13
                          THEN _extract_records_from_page(page_data, page_size)
                          ELSE <<>>,
                      text_fragments |-> _extract_text_fragments(page_data)]>>)
             \o ScanPages(db, page_size, free_pages, k + 1)

scan_freelist(db, p) ==
    [page_size |-> p.page_size,
     free_page_count |-> Len(p.free_pages),
     recovered_data |-> ScanPages(db, p.page_size, p.free_pages, 1)]

\* "if fragment not in all_fragments: all_fragments.append(fragment)" for the
\* fragments of one page: a fragment is appended where no equal one precedes it
AddFragments(all_fragments, fragments) ==
    LET joined == all_fragments \o fragments
        First(i) == i <= Len(all_fragments) \/ \A j \in 1..(i - 1) : joined[j] # joined[i]
        kept == SelectSeq(Indices(joined), First)
    IN  [n \in 1..Len(kept) |-> joined[kept[n]]]

MaxLength(fragments) ==
    CHOOSE n \in {Len(fragments[i]) : i \in 1..Len(fragments)} :
        \A i \in 1..Len(fragments) : Len(fragments[i]) <= n

\* all_fragments.sort(key=len, reverse=True): longest first, fragments of one
\* length in the order they had
RECURSIVE SortByLength(_)
SortByLength(fragments) ==
    IF fragments = <<>> THEN <<>>
    ELSE LET n == MaxLength(fragments)
             Longest(fragment) == Len(fragment) = n
             Shorter(fragment) == Len(fragment) < n
         IN  SelectSeq(fragments, Longest) \o SortByLength(SelectSeq(fragments, Shorter))

\* the slice [:100] written as a sort followed by a cut
LimitMutant(all_fragments) == SortByLength(Slice(all_fragments, 0, FRAGMENT_LIMIT))

\* the sort and the slice [:100] at the end of both recovery functions
LimitFragments(all_fragments) == Slice(SortByLength(all_fragments), 0, FRAGMENT_LIMIT)

\* the records loop of recover_deleted_records, from the k-th page result and
\* its j-th record: one 'tables' entry for every record
RECURSIVE RecoveryEntries(_, _)
RecoveryEntries(recovered_data, k) ==
    IF k > Len(recovered_data) THEN <<>>
    ELSE [j \in 1..Len(recovered_data[k].recovered_records) |->
             [name |-> "unknown",
              records |-> <<[rowid |-> recovered_data[k].recovered_records[j].rowid,
                             page_number |-> recovered_data[k].page_number,
                             values |-> recovered_data[k].recovered_records[j].values]>>]]
         \o RecoveryEntries(recovered_data, k + 1)

\* the fragments loop of recover_deleted_records, from the k-th page result
RECURSIVE CollectFragments(_, _, _)
CollectFragments(recovered_data, k, all_fragments) ==
    IF k > Len(recovered_data) THEN all_fragments
    ELSE CollectFragments(recovered_data, k + 1,
                          AddFragments(all_fragments, recovered_data[k].text_fragments))

\* recover_deleted_records of freelist.py: [call, left, parser, scan, result]
recover_deleted_records(exists, db, wal, fault, d) ==
    LET n == NewParser(exists, db, wal, fault, d)
        scan == scan_freelist(db, n.parser)
        tables == RecoveryEntries(scan.recovered_data, 1)
    IN  IF n.call.outcome = "error"
        THEN [call |-> [n.call EXCEPT !.op = "recover_deleted_records"], left |-> n.left,
              parser |-> n.parser, scan |-> NoResult, result |-> NoResult]
        ELSE [call |-> [n.call EXCEPT !.op = "recover_deleted_records"], left |-> n.left,
              parser |-> n.parser,
              scan |-> scan,
              result |-> [tables |-> tables,
                          recovered_count |-> Len(tables),
                          text_fragments |->
                              LimitFragments(CollectFragments(scan.recovered_data, 1, <<>>))]]

RecoverDeletedRecords ==
    /\ callsLeft > 0
    /\ \E fault \in Faults :
           LET r == recover_deleted_records(dbExists, dbBytes, hasWal, fault, nextTmp)
           IN  /\ Finish(r)
               /\ parser' = r.parser
               /\ scan_results' = r.scan
               /\ result' = r.result
    /\ UNCHANGED <<built, wal_info, varintIn>>

\* the sizes carve_deleted_tables tries when the header gives none, in its order
CommonPageSizes == <<4096, 8192, 16384, 32768, 1024, 2048, 512>>

\* the first common size, whether or not it divides the length
FirstDivisorMutant(len, k) == CommonPageSizes[1]

RECURSIVE FirstDivisor(_, _)
FirstDivisor(len, k) ==
    IF k > Len(CommonPageSizes) THEN 0
    ELSE IF len % CommonPageSizes[k] = 0 THEN CommonPageSizes[k]
    ELSE FirstDivisor(len, k + 1)

\* the page size carve_deleted_tables would take from the common sizes alone
PageSizeMutant(db_data) ==
    IF FirstDivisor(Len(db_data), 1) # 0 THEN FirstDivisor(Len(db_data), 1) ELSE 4096

\* the page size carve_deleted_tables settles on for a file of at least 18 bytes
\* (or fewer than 16)
CarvePageSize(db_data) ==
    LET header_page_size == IF Len(db_data) >= 16 THEN U16BE(Slice(db_data, 16, 18)) ELSE 0
        from_header == IF header_page_size = 1 THEN 65536
                       ELSE IF header_page_size >= 512 THEN header_page_size
                       ELSE 0
        guessed == IF from_header # 0 THEN from_header ELSE FirstDivisor(Len(db_data), 1)
    IN  IF guessed # 0 THEN guessed ELSE 4096

\* the SQLiteFreelistParser objects the page loop constructs: one for every
\* page, one more for every page whose first byte is 13
ParsersBuilt(db_data, page_size) ==
    LET page_count == Len(db_data) \div page_size
    IN  page_count
        + Cardinality({i \in 0..(page_count - 1) : db_data[i * page_size + 1] = 13})

\* the page loop of carve_deleted_tables from page i (from 0): [carved_pages,
\* all_fragments]; parser_page_size is the page size of the parsers it builds
RECURSIVE CarvePages(_, _, _, _, _, _)
CarvePages(db_data, page_size, parser_page_size, i, carved_pages, all_fragments) ==
    LET page_offset == i * page_size
        page_data == Slice(db_data, page_offset, page_offset + page_size)
        records == IF page_data[1] = 13
                   THEN _extract_records_from_page(page_data, parser_page_size)
                   ELSE <<>>
    IN  IF i >= Len(db_data) \div page_size
        THEN [carved_pages |-> carved_pages, all_fragments |-> all_fragments]
        ELSE CarvePages(db_data, page_size, parser_page_size, i + 1,
                        IF records # <<>>
                        THEN Append(carved_pages, [page_offset |-> page_offset,
                                                   page_index |-> i + 1,
                                                   records |-> records])
                        ELSE carved_pages,
                        AddFragments(all_fragments, _extract_text_fragments(page_data)))

\* carving that reports only the pages the freelist of the file lists
CarveListedMutant(exists, db, wal, fault, d) ==
    LET page_size == CarvePageSize(db)
        n == ParsersBuilt(db, page_size)
        first == NewParser(exists, db, wal, fault, d)
        carved == CarvePages(db, page_size, first.parser.page_size, 0, <<>>, <<>>)
        carving_results == [page_size |-> page_size,
                            carved_pages |->
                                SelectSeq(carved.carved_pages,
                                          LAMBDA c : \E k \in 1..Len(first.parser.free_pages) :
                                                         first.parser.free_pages[k]
                                                             = c.page_index),
                            text_fragments |-> LimitFragments(carved.all_fragments)]
    IN  IF ~exists
        THEN [call |-> Raised("carve_deleted_tables", "FileNotFoundError", {}, {}),
              left |-> {}, result |-> NoResult]
        ELSE IF Len(db) \in {16, 17}
        THEN [call |-> Raised("carve_deleted_tables", "StructError", {<<"db", "read">>}, {}),
              left |-> {}, result |-> NoResult]
        ELSE IF n = 0
        THEN [call |-> Returned("carve_deleted_tables", {<<"db", "read">>}, {}),
              left |-> {},
              result |-> [page_size |-> page_size, carved_pages |-> <<>>,
                          text_fragments |-> <<>>]]
        ELSE IF first.call.outcome = "error"
        THEN [call |-> [first.call EXCEPT !.op = "carve_deleted_tables",
                                          !.accesses = @ \cup {<<"db", "read">>}],
              left |-> first.left, result |-> NoResult]
        ELSE [call |-> Returned("carve_deleted_tables", first.call.accesses,
                                d..(d + n - 1)),
              left |-> {}, result |-> carving_results]

\* carve_deleted_tables: [call, left, result]; every exception becomes an error
\* result
carve_deleted_tables(exists, db, wal, fault, d) ==
    LET page_size == CarvePageSize(db)
        n == ParsersBuilt(db, page_size)
        first == NewParser(exists, db, wal, fault, d)
        carved == CarvePages(db, page_size, first.parser.page_size, 0, <<>>, <<>>)
        carving_results == [page_size |-> page_size,
                            carved_pages |-> carved.carved_pages,
                            text_fragments |-> LimitFragments(carved.all_fragments)]
    IN  IF ~exists
        THEN [call |-> Raised("carve_deleted_tables", "FileNotFoundError", {}, {}),
              left |-> {}, result |-> NoResult]
        ELSE IF Len(db) \in {16, 17}
        THEN [call |-> Raised("carve_deleted_tables", "StructError", {<<"db", "read">>}, {}),
              left |-> {}, result |-> NoResult]
        ELSE IF n = 0
        THEN [call |-> Returned("carve_deleted_tables", {<<"db", "read">>}, {}),
              left |-> {},
              result |-> [page_size |-> page_size, carved_pages |-> <<>>,
                          text_fragments |-> <<>>]]
        ELSE IF first.call.outcome = "error"
        THEN [call |-> [first.call EXCEPT !.op = "carve_deleted_tables",
                                          !.accesses = @ \cup {<<"db", "read">>}],
              left |-> first.left, result |-> NoResult]
        ELSE [call |-> Returned("carve_deleted_tables", first.call.accesses,
                                d..(d + n - 1)),
              left |-> {}, result |-> carving_results]

CarveDeletedTables ==
    /\ callsLeft > 0
    /\ \E fault \in Faults :
           LET r == carve_deleted_tables(dbExists, dbBytes, hasWal, fault, nextTmp)
           IN  /\ Finish(r)
               /\ result' = r.result
    /\ UNCHANGED <<built, wal_info, parser, varintIn, scan_results>>

(***************************************************************************)
(* Input files.                                                            *)
(***************************************************************************)
\* a file that is too short for the magic, one with other content, a database
ShortFile == Slice(SQLITE_MAGIC, 0, 8)

OtherFile == Zeros(16)

MagicFile == SQLITE_MAGIC

\* the first 100 bytes of a database file
MkDbHeader(page_size, freelist_trunk_page, total_freelist_pages) ==
    SQLITE_MAGIC \o BE16(page_size % 65536) \o <<1, 1, 0, 64, 32, 32>> \o Zeros(8)
        \o BE32(freelist_trunk_page)
        \o BE32(total_freelist_pages) \o Zeros(60)

\* A database whose bytes from offset 100 on are zero: the page compare_with_db
\* reads for page numbers 1 and 2 is all zero, the one for 3 is past the end.
ZeroDb == MkDbHeader(ModelPageSize, 0, 0) \o Zeros(2 * ModelPageSize)

InitScratch ==
    /\ dbStamp = [hash |-> 0, mtime |-> 0]
    /\ procs = [p \in Procs |-> IdleProc]
    /\ lastStep = NoStep
    /\ tmpDirs = {}
    /\ nextTmp = 0
    /\ lastCall = NoCall
    /\ result = NoResult
    /\ scan_results = NoResult

(***************************************************************************)
(* SpecQuery: one execute_query call on any query text and any database.   *)
(***************************************************************************)
InitQuery ==
    /\ InitScratch
    /\ dbExists \in BOOLEAN
    /\ dbBytes \in IF dbExists THEN {ShortFile, OtherFile, MagicFile, ZeroDb} ELSE {<<>>}
    /\ hasWal \in BOOLEAN
    /\ walBytes = <<>>
    /\ hasShm \in BOOLEAN
    /\ callsLeft = 1
    /\ query \in Queries
    /\ NoAnalyzer
    /\ NoParser
    /\ NoVarint

NextQuery == ExecuteQuery \/ AnalyzeSchema

SpecQuery == InitQuery /\ [][NextQuery]_vars

(***************************************************************************)
(* WAL input files.                                                        *)
(***************************************************************************)
Pack(endian, n) == IF endian = ">" THEN BE32(n) ELSE LE32(n)

FILE_FORMAT == 3007 * 1000

\* salts and checksums whose bytes differ, so that the byte order shows
SaltA == U32BE(<<1, 2, 3, 4>>)

SaltB == U32BE(<<5, 6, 7, 8>>)

Checksum == U32BE(<<9, 10, 11, 12>>)

MkWalHeader(magic_bytes, endian, page_size, checkpoint_seq) ==
    magic_bytes \o Pack(endian, FILE_FORMAT) \o Pack(endian, page_size)
        \o Pack(endian, checkpoint_seq) \o Pack(endian, SaltA) \o Pack(endian, SaltB)
        \o Pack(endian, Checksum) \o Pack(endian, Checksum)

MkFrame(endian, page_number, commit_seq, salt1, fill, page_size) ==
    Pack(endian, page_number) \o Pack(endian, commit_seq) \o Pack(endian, salt1)
        \o Pack(endian, SaltB) \o Pack(endian, Checksum) \o Pack(endian, Checksum)
        \o Fill(page_size, fill)

\* the frames described by descs (each [pn, fill, salt1]), the k-th committing as k
RECURSIVE MkFrames(_, _, _, _)
MkFrames(endian, descs, k, page_size) ==
    IF k > Len(descs) THEN <<>>
    ELSE MkFrame(endian, descs[k].pn, k, descs[k].salt1, descs[k].fill, page_size)
         \o MkFrames(endian, descs, k + 1, page_size)

\* frames for page 1 and 2 whose image equals the database's bytes (fill 0),
\* one for page 1 whose image differs, one with page number 0, and one left
\* over from an earlier generation of the log (its salt is not the header's)
FrameDescs ==
    {[pn |-> 1, fill |-> 0, salt1 |-> SaltA], [pn |-> 1, fill |-> 1, salt1 |-> SaltA],
     [pn |-> 2, fill |-> 0, salt1 |-> SaltA], [pn |-> 0, fill |-> 0, salt1 |-> SaltA],
     [pn |-> 2, fill |-> 0, salt1 |-> SaltB]}

FrameSeqs == UNION {[1..n -> FrameDescs] : n \in 0..MaxFrames}

\* magic bytes and the byte order the writer used for the other fields
WalKinds ==
    {[magic |-> LE32(WAL_MAGIC), endian |-> "<"],
     [magic |-> LE32(WAL_MAGIC_BE), endian |-> ">"],
     [magic |-> BE32(WAL_MAGIC), endian |-> ">"],
     [magic |-> Zeros(4), endian |-> "<"]}

\* a truncated trailing frame: a frame header and part of a page
PartialFrame(endian) == Pack(endian, 1) \o Pack(endian, 0) \o Zeros(20)

WalFiles ==
    {MkWalHeader(k.magic, k.endian, ModelPageSize, 1)
        \o MkFrames(k.endian, fs, 1, ModelPageSize) \o tail :
        k \in WalKinds, fs \in FrameSeqs, tail \in {<<>>, PartialFrame("<")}}

(***************************************************************************)
(* SpecWal: calls on one WALAnalyzer over a database and its WAL.          *)
(***************************************************************************)
InitWal ==
    /\ InitScratch
    /\ dbExists = TRUE
    /\ dbBytes = ZeroDb
    /\ hasWal = TRUE
    /\ walBytes \in WalFiles
    /\ hasShm = FALSE
    /\ callsLeft = MaxCalls
    /\ query = <<>>
    /\ built = TRUE
    /\ wal_info = FreshWalInfo
    /\ NoParser
    /\ NoVarint

NextWal == Analyze \/ CompareWithDb \/ ExtractDeletedRecords

SpecWal == InitWal /\ [][NextWal]_vars

(***************************************************************************)
(* SpecWalHeader: one analyze() on a WAL file with any header.             *)
(***************************************************************************)
HeaderMagics ==
    {LE32(WAL_MAGIC), LE32(WAL_MAGIC_BE), BE32(WAL_MAGIC), BE32(WAL_MAGIC_BE), Zeros(4)}

WalHeaderFiles ==
    {Slice(MkWalHeader(m, e, ps, cs) \o MkFrames(e, fs, 1, ps), 0, cut) :
        m \in HeaderMagics, e \in {"<", ">"}, ps \in {0, 1, ModelPageSize},
        cs \in {0, 258},
        fs \in {<<>>, <<[pn |-> 1, fill |-> 1, salt1 |-> SaltA]>>,
                <<[pn |-> 1, fill |-> 1, salt1 |-> SaltA],
                  [pn |-> 2, fill |-> 0, salt1 |-> SaltA]>>},
        cut \in {WAL_HEADER_SIZE - 1, WAL_HEADER_SIZE, 56, 70, 1024}}

InitWalHeader ==
    /\ InitScratch
    /\ dbExists = TRUE
    /\ dbBytes = ZeroDb
    /\ hasWal = TRUE
    /\ walBytes \in WalHeaderFiles
    /\ hasShm = FALSE
    /\ callsLeft = 1
    /\ query = <<>>
    /\ built = TRUE
    /\ wal_info = FreshWalInfo
    /\ NoParser
    /\ NoVarint

NextWalHeader == Analyze

SpecWalHeader == InitWalHeader /\ [][NextWalHeader]_vars

(***************************************************************************)
(* Freelist input files: synthetic trunk chains.  Trunk j holds chain[j]   *)
(* leaf numbers; the pages are numbered in file order from 2: a trunk,     *)
(* then its leaves.  back = 0 ends the chain; back = j makes the last      *)
(* trunk's next-trunk pointer point back at trunk j.                       *)
(***************************************************************************)
RECURSIVE TrunkPage(_, _)
TrunkPage(chain, j) == IF j = 1 THEN 2 ELSE TrunkPage(chain, j - 1) + 1 + chain[j - 1]

ChainLength(chain) == TrunkPage(chain, Len(chain)) + chain[Len(chain)] - 1

RECURSIVE LeafNumbers(_, _)
LeafNumbers(first, n) == IF n = 0 THEN <<>> ELSE BE32(first) \o LeafNumbers(first + 1, n - 1)

PadTo(bytes, n) == bytes \o Zeros(n - Len(bytes))

MkTrunk(page, n, next) ==
    PadTo(BE32(0) \o BE32(n) \o LeafNumbers(page + 1, n) \o BE32(next), ModelPageSize)

RECURSIVE MkChainPages(_, _, _)
MkChainPages(chain, j, back) ==
    IF j > Len(chain) THEN <<>>
    ELSE MkTrunk(TrunkPage(chain, j), chain[j],
                 IF j < Len(chain) THEN TrunkPage(chain, j + 1)
                 ELSE IF back = 0 THEN 0 ELSE TrunkPage(chain, back))
         \o Zeros(chain[j] * ModelPageSize)
         \o MkChainPages(chain, j + 1, back)

MkFreelistDb(chain, back) ==
    PadTo(MkDbHeader(ModelPageSize, 2, ChainLength(chain)), ModelPageSize)
        \o MkChainPages(chain, 1, back)

Chains == UNION {[1..t -> 0..MaxLeaves] : t \in 1..MaxTrunks}

FreelistDbs ==
    UNION {{MkFreelistDb(chain, back) : back \in 0..Len(chain)} : chain \in Chains}
    \cup {PadTo(MkDbHeader(ModelPageSize, 0, 0), ModelPageSize)}

(***************************************************************************)
(* SpecFreelist: freelist recovery on a database with a trunk chain.       *)
(***************************************************************************)
InitFreelist ==
    /\ InitScratch
    /\ dbExists = TRUE
    /\ dbBytes \in FreelistDbs
    /\ hasWal \in BOOLEAN
    /\ walBytes = <<>>
    /\ hasShm = FALSE
    /\ callsLeft = 1
    /\ query = <<>>
    /\ NoAnalyzer
    /\ NoParser
    /\ NoVarint

NextFreelist == RecoverDeletedRecords

SpecFreelist == InitFreelist /\ [][NextFreelist]_vars

(***************************************************************************)
(* SpecVarint: _decode_varint and _parse_cell on any buffer and offset.    *)
(***************************************************************************)
\* a byte without and a byte with the continuation bit 0x80
VarintBytes == {1, 255}

\* the smallest and largest bytes without and with the continuation bit
CellBytes == {0, 1, 127, 128, 129, 255}

\* long buffers of two byte values, short buffers of six
VarintBuffers ==
    UNION {[1..n -> VarintBytes] : n \in 0..MaxVarintBuf}
    \cup UNION {[1..n -> CellBytes] : n \in 0..MaxCellLen}

InitVarint ==
    /\ InitScratch
    /\ dbExists = FALSE
    /\ dbBytes = <<>>
    /\ hasWal = FALSE
    /\ walBytes = <<>>
    /\ hasShm = FALSE
    /\ callsLeft = 1
    /\ query = <<>>
    /\ NoAnalyzer
    /\ NoParser
    /\ \E data \in VarintBuffers :
           \E offset \in 0..(Len(data) + 1) : varintIn = [data |-> data, offset |-> offset]

NextVarint == DecodeVarint \/ ParseCell

SpecVarint == InitVarint /\ [][NextVarint]_vars

(***************************************************************************)
(* SpecAccess: calls of every operation on one database and its sidecars.  *)
(***************************************************************************)
\* a two-page database of 512-byte pages whose second page is a table leaf
LeafPageDb ==
    PadTo(MkDbHeader(512, 0, 0), 512) \o PadTo(<<13>>, 512)

OneFrameWal ==
    MkWalHeader(LE32(WAL_MAGIC), "<", ModelPageSize, 1)
        \o MkFrame("<", 1, 1, SaltA, 1, ModelPageSize)

InitAccess ==
    /\ InitScratch
    /\ dbExists \in BOOLEAN
    /\ dbBytes \in IF dbExists THEN {ShortFile, MagicFile, LeafPageDb} ELSE {<<>>}
    /\ hasWal \in BOOLEAN
    /\ walBytes = IF hasWal THEN OneFrameWal ELSE <<>>
    /\ hasShm \in BOOLEAN
    /\ callsLeft = MaxAccessCalls
    /\ query \in {<<"SELECT">>, <<"DROP">>}
    /\ NoAnalyzer
    /\ NoParser
    /\ NoVarint

NextAccess ==
    \/ FindDatabases
    \/ AnalyzeSchema
    \/ ExecuteQuery
    \/ AnalyzerRecoverDeletedRecords
    \/ RecoverDeletedRecords
    \/ CarveDeletedTables
    \/ Construct
    \/ Analyze
    \/ CompareWithDb
    \/ ExtractDeletedRecords

SpecAccess == InitAccess /\ [][NextAccess]_vars

(***************************************************************************)
(* SpecConcurrent: two analyses of one database, interleaved step by step. *)
(***************************************************************************)
InitConcurrent ==
    /\ InitScratch
    /\ dbExists = TRUE
    /\ dbBytes = ZeroDb
    /\ hasWal \in BOOLEAN
    /\ walBytes = IF hasWal THEN OneFrameWal ELSE <<>>
    /\ hasShm \in BOOLEAN
    /\ callsLeft = MaxCalls
    /\ query = <<"SELECT">>
    /\ NoAnalyzer
    /\ NoParser
    /\ NoVarint

NextConcurrent ==
    \E p \in Procs :
        \/ StartAnalysis(p)
        \/ CopyStep(p)
        \/ OpenStep(p)
        \/ RemoveStep(p)
        \/ RmdirStep(p)
        \/ RaiseStep(p)

SpecConcurrent == InitConcurrent /\ [][NextConcurrent]_vars

(***************************************************************************)
(* SpecRecovery: freelist recovery and carving on databases of 512-byte    *)
(* pages whose free pages hold old table leaves and text.                  *)
(***************************************************************************)
RealPageSize == 2 ^ 9

\* "name", "mail" and "text" in ASCII
Name == <<110, 97, 109, 101>>

Mail == <<109, 97, 105, 108>>

Text == <<116, 101, 120, 116>>

\* a table leaf cell: payload size, rowid, payload
MkCell(rowid, payload) == <<Len(payload), rowid>> \o payload

\* a table leaf page of the cells, the k-th at offset 256 + 32 * (k - 1)
MkLeaf(cells) ==
    LET pointers == [b \in 1..(2 * Len(cells)) |->
                        IF b % 2 = 1 THEN 1 ELSE 32 * ((b \div 2) - 1)]
        Byte(p) ==
            LET k == ((p - 257) \div 32) + 1
                r == ((p - 257) % 32) + 1
            IN  IF p <= 256 \/ k > Len(cells) \/ r > Len(cells[k]) THEN 0 ELSE cells[k][r]
    IN  PadTo(<<13, 0, 0>> \o BE16(Len(cells)) \o <<1, 0, 0>> \o pointers, 256)
            \o [q \in 1..(RealPageSize - 256) |-> Byte(q + 256)]

\* the i-th (from 0) fragment of a page that is full of short fragments; the
\* last one is the longest
DenseCount == FRAGMENT_LIMIT + 2

DensePage ==
    [p \in 1..RealPageSize |->
        LET i == (p - 1) \div 5
            r == (p - 1) % 5
        IN  IF i >= DenseCount - 1
            THEN (IF p = RealPageSize THEN 0 ELSE IF r < 4 THEN 65 + r ELSE 49)
            ELSE IF r = 0 THEN 65 + (i \div 26)
            ELSE IF r = 1 THEN 65 + (i % 26)
            ELSE IF r = 4 THEN 0
            ELSE 48]

\* what a free page may hold: nothing, a table leaf with one or two cells (the
\* cell with payload size 0 parses to no record), a leaf without cells, an
\* index page with text, a page full of fragments
FreePageKinds ==
    {Zeros(RealPageSize),
     MkLeaf(<<MkCell(7, Name \o <<0>> \o Mail)>>),
     MkLeaf(<<MkCell(1, <<>>), MkCell(2, Text \o Name)>>),
     MkLeaf(<<>>),
     PadTo(<<10, 0>> \o Text \o <<0>> \o Name \o Mail \o <<0>> \o Text, RealPageSize),
     DensePage}

FreePageSeqs == UNION {[1..n -> FreePageKinds] : n \in 1..MaxFreePages}

RECURSIVE Concat(_, _)
Concat(pages, k) == IF k > Len(pages) THEN <<>> ELSE pages[k] \o Concat(pages, k + 1)

\* header page (the header and an empty schema leaf), one trunk page that lists
\* `lead` times page 1 (a corrupt entry) and then the free pages 3, 4, ..., the
\* free pages; `cut` bytes are missing from the last page
MkRecoveryDb(pages, cut, lead) ==
    LET listed == lead + Len(pages)
        whole == PadTo(MkDbHeader(RealPageSize, 2, 1 + listed)
                           \o <<13, 0, 0, 0, 0>> \o BE16(RealPageSize) \o <<0>>,
                       RealPageSize)
                     \o PadTo(BE32(0) \o BE32(listed)
                                  \o Concat([i \in 1..lead |-> BE32(1)], 1)
                                  \o LeafNumbers(3, Len(pages)),
                              RealPageSize)
                     \o Concat(pages, 1)
    IN  Slice(whole, 0, Len(whole) - cut)

RecoveryDbs ==
    {MkRecoveryDb(pages, cut, 0) : pages \in FreePageSeqs, cut \in {0, 128}}
    \cup {MkRecoveryDb(pages, 0, 1) : pages \in FreePageSeqs}

InitRecovery ==
    /\ InitScratch
    /\ dbExists = TRUE
    /\ dbBytes \in RecoveryDbs
    /\ hasWal = FALSE
    /\ walBytes = <<>>
    /\ hasShm = FALSE
    /\ callsLeft = 2
    /\ query = <<>>
    /\ NoAnalyzer
    /\ NoParser
    /\ NoVarint

NextRecovery == RecoverDeletedRecords \/ CarveDeletedTables

SpecRecovery == InitRecovery /\ [][NextRecovery]_vars

(***************************************************************************)
(* SpecCarve: carve_deleted_tables on files of any length whose header     *)
(* stores any page size, with and without the magic string.                *)
(***************************************************************************)
StoredPageSizes == {0, 1, 2, 511, 512, 513, 1024, 65535}

CarveLengths == {0, 15, 16, 17, 18, 100, 512, 1000, 1024, 1536, 4096}

CarveFiles ==
    {Slice(MkDbHeader(stored, 0, 0) \o Zeros(4096), 0, len) :
        stored \in StoredPageSizes, len \in CarveLengths}
    \cup {Zeros(len) : len \in CarveLengths}

InitCarve ==
    /\ InitScratch
    /\ dbExists = TRUE
    /\ dbBytes \in CarveFiles
    /\ hasWal = FALSE
    /\ walBytes = <<>>
    /\ hasShm = FALSE
    /\ callsLeft = 1
    /\ query = <<>>
    /\ NoAnalyzer
    /\ NoParser
    /\ NoVarint

NextCarve == CarveDeletedTables

SpecCarve == InitCarve /\ [][NextCarve]_vars

(***************************************************************************)
(* SpecRelink: carving a database before and after its freelist is         *)
(* relinked.  The free pages are table leaves with a record, empty pages   *)
(* and pages that, read as a freelist trunk, name themselves as the next   *)
(* trunk.  Relinking rewrites the trunk pointer and the page count of the  *)
(* header (bytes 32-39) and nothing else.                                  *)
(***************************************************************************)
LoopPage(page_number) == PadTo(Zeros(8) \o BE32(page_number), RealPageSize)

RelinkPage(tag, page_number) ==
    IF tag = "leaf" THEN MkLeaf(<<MkCell(7, Name \o <<0>> \o Mail)>>)
    ELSE IF tag = "loop" THEN LoopPage(page_number)
    ELSE Zeros(RealPageSize)

RelinkDbs ==
    {MkRecoveryDb([k \in 1..Len(tags) |-> RelinkPage(tags[k], k + 2)], 0, 0) :
        tags \in UNION {[1..n -> {"leaf", "loop", "zero"}] : n \in 1..MaxFreePages}}

\* trunk pointers: none, the trunk page, the first two free pages, past the end
RelinkTrunks == {0, 2, 3, 4, 9}

RelinkCounts == {0, 1, 5}

InitRelink ==
    /\ InitScratch
    /\ dbExists = TRUE
    /\ dbBytes \in RelinkDbs
    /\ hasWal = FALSE
    /\ walBytes = <<>>
    /\ hasShm = FALSE
    /\ callsLeft = 2
    /\ query = <<>>
    /\ NoAnalyzer
    /\ NoParser
    /\ NoVarint

\* between two carvings the header's freelist fields are rewritten, once
RelinkFreelist ==
    /\ callsLeft = 1
    /\ lastCall.op = "carve_deleted_tables"
    /\ dbStamp.hash = 0
    /\ \E trunk \in RelinkTrunks, count \in RelinkCounts :
           /\ BE32(trunk) \o BE32(count) # Slice(dbBytes, 32, 40)
           /\ dbBytes' = Slice(dbBytes, 0, 32) \o BE32(trunk) \o BE32(count)
                             \o Slice(dbBytes, 40, Len(dbBytes))
    /\ dbStamp' = [hash |-> dbStamp.hash + 1, mtime |-> dbStamp.mtime + 1]
    /\ UNCHANGED <<dbExists, hasWal, walBytes, hasShm, tmpDirs, nextTmp, callsLeft, query,
                   lastCall, result, built, wal_info, parser, varintIn, procs, lastStep,
                   scan_results>>

NextRelink == CarveDeletedTables \/ RelinkFreelist

SpecRelink == InitRelink /\ [][NextRelink]_vars

(***************************************************************************)
(* SpecLeafPage: freelist recovery on a database whose one free page is a  *)
(* table leaf with any cell pointers: to the cells at 256, 288 and 400, to *)
(* offset 0, to offsets past the page.  With the last 128 bytes of the     *)
(* file missing the cell at 400 is in the page but not in the buffer.      *)
(***************************************************************************)
CellPointers == {0, 256, 288, 400, 600, 65535}

PointerSeqs == UNION {[1..n -> CellPointers] : n \in 1..MaxCells}

\* the leaf declares `declared` cells and holds the pointers
MkPointerLeaf(pointers, declared) ==
    LET cells == [q \in 1..(RealPageSize - 256) |->
                     LET at(offset, cell) ==
                             q + 255 >= offset /\ q + 255 < offset + Len(cell)
                     IN  IF at(256, MkCell(7, Name)) THEN MkCell(7, Name)[q]
                         ELSE IF at(288, MkCell(8, Mail)) THEN MkCell(8, Mail)[q - 32]
                         ELSE IF at(400, MkCell(9, Text)) THEN MkCell(9, Text)[q - 144]
                         ELSE 0]
    IN  PadTo(<<13, 0, 0>> \o BE16(declared) \o <<1, 0, 0>>
                  \o Concat([i \in 1..Len(pointers) |-> BE16(pointers[i])], 1), 256)
            \o cells

LeafPageDbs ==
    {MkRecoveryDb(<<MkPointerLeaf(pointers, Len(pointers) + more)>>, cut, 0) :
        pointers \in PointerSeqs, more \in {0, 1}, cut \in {0, 128}}

InitLeafPage ==
    /\ InitScratch
    /\ dbExists = TRUE
    /\ dbBytes \in LeafPageDbs
    /\ hasWal = FALSE
    /\ walBytes = <<>>
    /\ hasShm = FALSE
    /\ callsLeft = 1
    /\ query = <<>>
    /\ NoAnalyzer
    /\ NoParser
    /\ NoVarint

NextLeafPage == RecoverDeletedRecords

SpecLeafPage == InitLeafPage /\ [][NextLeafPage]_vars

(***************************************************************************)
(* Claims about execute_query (SpecQuery).                                 *)
(***************************************************************************)
\* The errors execute_query raises as ValueError before it touches the engine.
ValueErrors == {"NotASqliteDatabase", "EmptyQuery", "MultipleStatements", "ForbiddenKeyword"}

QueryCalled == lastCall.op = "execute_query"

RejectedUnexecuted ==
    /\ lastCall.outcome = "error"
    /\ lastCall.error \in ValueErrors
    /\ ~lastCall.executed

SemicolonBeforeFinal(q) == \E i \in 1..(Len(q) - 1) : q[i] = ";"

\* C4 as stated: every query text with a ';' before its final character is
\* rejected by execute_query and never reaches the SQL engine.
C4_AsStated ==
    (QueryCalled /\ SemicolonBeforeFinal(query)) => RejectedUnexecuted

\* C4 amended: every query text that, once leading and trailing white space is
\* stripped, has a ';' before its final character is rejected and never reaches
\* the SQL engine: with the multiple-statements error on a SQLite database, with
\* the not-a-database error otherwise.
C4_StrippedSemicolonRejected ==
    (QueryCalled /\ SemicolonBeforeFinal(strip(query))) =>
        /\ RejectedUnexecuted
        /\ lastCall.error =
               IF is_sqlite_database(dbExists, dbBytes) THEN "MultipleStatements" ELSE "NotASqliteDatabase"

C4_Witness ==
    /\ QueryCalled
    /\ is_sqlite_database(dbExists, dbBytes)
    /\ SemicolonBeforeFinal(strip(query))
    /\ lastCall.error = "MultipleStatements"

\* A denylisted keyword stands in the text as a whole SQL token: in any letter
\* case, with no word character next to it.
HasKeywordToken(q) ==
    \E i \in 1..Len(q) :
        /\ \E k \in 1..Len(forbidden_keywords) : upper_unit(q[i]) = forbidden_keywords[k]
        /\ (i = 1 \/ q[i - 1] \notin WordUnits)
        /\ (i = Len(q) \/ q[i + 1] \notin WordUnits)

\* C5: every query text that contains a denylisted keyword as a whole token, in
\* any letter case, is rejected by execute_query and never reaches the SQL engine.
C5_KeywordRejected ==
    (QueryCalled /\ HasKeywordToken(query)) => RejectedUnexecuted

\* C10: execute_query returns at most MAX_ROWS rows, row_count is the number of
\* rows returned, and has_more is set exactly when the cap is reached.
C10_RowCap ==
    (QueryCalled /\ lastCall.outcome = "ok") =>
        /\ lastCall.nrows <= MAX_ROWS
        /\ lastCall.nrows <= lastCall.avail
        /\ lastCall.row_count = lastCall.nrows
        /\ lastCall.has_more <=> (lastCall.nrows = MAX_ROWS)

C10_Witness ==
    /\ QueryCalled
    /\ lastCall.outcome = "ok"
    /\ lastCall.avail > MAX_ROWS
    /\ lastCall.nrows = MAX_ROWS
    /\ lastCall.has_more

(***************************************************************************)
(* Claims about the freelist walk (SpecFreelist).                          *)
(***************************************************************************)
RecoveryReturned ==
    /\ lastCall.op = "recover_deleted_records"
    /\ lastCall.outcome = "ok"

\* the freelist_page_count the database header declares
DeclaredFreePages == U32BE(Slice(dbBytes, 36, 40))

PairwiseDistinct(pages) ==
    \A i, j \in 1..Len(pages) : i # j => pages[i] # pages[j]

\* C6: on a trunk chain of N free pages, one whose last next-trunk pointer
\* points back to an earlier trunk included, the walk returns exactly N page
\* numbers and no page number twice.
C6_ExactlyNDistinct ==
    RecoveryReturned =>
        /\ Len(parser.free_pages) = DeclaredFreePages
        /\ PairwiseDistinct(parser.free_pages)

(***************************************************************************)
(* Claims about _decode_varint (SpecVarint).                               *)
(***************************************************************************)
VarintDecoded == lastCall.op = "_decode_varint"

\* C7: _decode_varint returns on every buffer and offset, looks at no more than
\* 9 bytes and reports a consumed count between 1 and 9.
C7_VarintBounded ==
    VarintDecoded =>
        /\ result.examined <= 9
        /\ result.bytes_read \in 1..9

\* nine bytes with the continuation bit from the offset on, and one more after them
C7_Witness ==
    /\ VarintDecoded
    /\ Len(varintIn.data) >= varintIn.offset + 10
    /\ \A i \in 1..10 : varintIn.data[varintIn.offset + i] >= 128
    /\ result.examined = 9
    /\ result.bytes_read = 1

(***************************************************************************)
(* Claims about the WAL header (SpecWalHeader).                            *)
(***************************************************************************)
AnalyzeReturned ==
    /\ lastCall.op = "analyze"
    /\ lastCall.outcome = "ok"

\* the magic number of the WAL file: its first four bytes read as the code
\* reads them, as a little-endian word
FileMagic == U32LE(Slice(walBytes, 0, 4))

WordLE(k) == U32LE(Slice(walBytes, 4 * k, 4 * k + 4))

WordBE(k) == U32BE(Slice(walBytes, 4 * k, 4 * k + 4))

HeaderLE ==
    [magic |-> WordLE(0), file_format |-> WordLE(1), page_size |-> WordLE(2),
     checkpoint_seq |-> WordLE(3), salt |-> <<WordLE(4), WordLE(5)>>, checksum |-> WordLE(6)]

HeaderBE ==
    [magic |-> WordBE(0), file_format |-> WordBE(1), page_size |-> WordBE(2),
     checkpoint_seq |-> WordBE(3), salt |-> <<WordBE(4), WordBE(5)>>, checksum |-> WordBE(6)]

CompareReturned ==
    /\ lastCall.op = "compare_with_db"
    /\ lastCall.outcome = "ok"

WalEndian == IF FileMagic = WAL_MAGIC_BE THEN ">" ELSE "<"

WalPageSize == Unpack(WalEndian, Slice(walBytes, 8, 12))

FrameSize == FRAME_HEADER_SIZE + WalPageSize

\* the frames that are completely present in the WAL file, numbered from 0
FileFrames ==
    IF Len(walBytes) < WAL_HEADER_SIZE \/ FileMagic \notin {WAL_MAGIC, WAL_MAGIC_BE}
    THEN {}
    ELSE 0..((Len(walBytes) - WAL_HEADER_SIZE) \div FrameSize - 1)

FramePage(k) ==
    Unpack(WalEndian, Slice(walBytes, WAL_HEADER_SIZE + k * FrameSize,
                            WAL_HEADER_SIZE + k * FrameSize + 4))

FrameImage(k) ==
    Slice(walBytes, WAL_HEADER_SIZE + k * FrameSize + FRAME_HEADER_SIZE,
          WAL_HEADER_SIZE + (k + 1) * FrameSize)

\* the page of the main file that corresponds to page number n
CorrespondingPage(n) ==
    IF n < 1 THEN <<>>
    ELSE Slice(dbBytes, DB_HEADER_SIZE + (n - 1) * WalPageSize,
               DB_HEADER_SIZE + n * WalPageSize)

AlteredFrames == {k \in FileFrames : FrameImage(k) # CorrespondingPage(FramePage(k))}

\* C9: when exactly one frame of the WAL has a page image that differs from the
\* corresponding page of the main file, compare_with_db reports exactly one
\* modified page, with that frame's page number.
C9_OneModifiedPage ==
    (CompareReturned /\ Cardinality(AlteredFrames) = 1) =>
        /\ Len(result.modified_pages) = 1
        /\ \A k \in AlteredFrames : result.modified_pages[1].page_number = FramePage(k)

(***************************************************************************)
(* Claims about the handling of the original files and of scratch          *)
(* directories.                                                            *)
(***************************************************************************)
OriginalFiles == {"db", "wal", "shm"}

\* C1: in every operation the original database and its -wal and -shm files are
\* only copied or opened read-only; the SQL engine is never connected to an
\* original path in a write-capable mode.
C1_OriginalReadOnly ==
    \A a \in lastCall.accesses :
        a[1] \in OriginalFiles => a[2] \in {"copy", "read", "sql_ro"}

AnalysisOps == {"analyze_schema", "execute_query"}

\* C2: a call of analyze_schema or execute_query, whether it returns or raises,
\* leaves the hash and the modification time of the original database as they
\* were.
C2_OriginalUnchanged ==
    [][(lastCall' # lastCall /\ lastCall'.op \in AnalysisOps) => dbStamp' = dbStamp]_vars

\* a query ran against a database that has a write-ahead log, and a call on it raised
C2_Witness ==
    /\ lastCall.op = "execute_query"
    /\ lastCall.outcome = "error"
    /\ lastCall.executed
    /\ <<"db", "copy">> \in lastCall.accesses
    /\ <<"wal", "copy">> \in lastCall.accesses
    /\ hasWal
    /\ dbStamp = [hash |-> 0, mtime |-> 0]

\* C3: when a call that created a scratch directory has ended, by return or by
\* exception, the directory is no longer on disk.
C3_ScratchRemoved ==
    \A t \in tmpDirs : t.id \notin lastCall.created

(***************************************************************************)
(* Claims about concurrent analyses (SpecConcurrent).                      *)
(***************************************************************************)
Running(p) == procs[p].pc # "idle"

\* C11: two analyses that run at the same time on one database hold different
\* scratch directories, and no step of one reads, writes or removes anything in
\* the directory the other holds.
C11_ScratchIsolated ==
    /\ \A p, q \in Procs : (p # q /\ Running(p) /\ Running(q)) => procs[p].dir # procs[q].dir
    /\ \A q \in Procs :
           (lastStep.kind # "none" /\ q # lastStep.proc /\ Running(q)) =>
               procs[q].dir # lastStep.dir

\* one analysis removes its copy while the other is between its copy and its read
C11_Witness ==
    /\ lastStep.kind = "remove"
    /\ \E q \in Procs :
           /\ q # lastStep.proc
           /\ procs[q].pc = "open"
           /\ "db" \in FilesOf(procs[q].dir)

(***************************************************************************)
(* Claims about the magic check of the analyses (SpecQuery).               *)
(***************************************************************************)
\* the path names a regular file whose first 16 bytes are 'SQLite format 3\0'
IsSqliteFile ==
    /\ dbExists
    /\ Len(dbBytes) >= 16
    /\ \A i \in 1..16 : dbBytes[i] = SQLITE_MAGIC[i]

SqlModes == {"sql_ro", "sql_rw"}

\* C12: on a path that is no regular file starting with the SQLite magic,
\* analyze_schema and execute_query fail with the not-a-database error, and
\* the call has created no scratch directory and opened no SQL connection.
C12_NotADatabaseFirst ==
    (lastCall.op \in AnalysisOps /\ ~IsSqliteFile) =>
        /\ lastCall.outcome = "error"
        /\ lastCall.error = "NotASqliteDatabase"
        /\ lastCall.created = {}
        /\ tmpDirs = {}
        /\ \A a \in lastCall.accesses : a[2] \notin SqlModes
        /\ ~lastCall.executed

\* a file that holds only the first half of the magic
C12_Witness ==
    /\ lastCall.op = "analyze_schema"
    /\ dbExists
    /\ dbBytes = Slice(SQLITE_MAGIC, 0, 8)
    /\ lastCall.error = "NotASqliteDatabase"

(***************************************************************************)
(* Claims about WALAnalyzer over one log file (SpecWal).                   *)
(***************************************************************************)
WalOps == {"analyze", "compare_with_db", "extract_deleted_records"}

\* C14: a frame whose salt is not the WAL header's is marked suspect, and so
\* is every frame after it; no frame before the first mismatch is marked.
MarkedSuspect(frame) == "suspect" \in DOMAIN frame /\ frame.suspect

C14_SuspectFromFirstMismatch ==
    \A k \in 1..Len(wal_info.frames) :
        MarkedSuspect(wal_info.frames[k]) <=>
            (\E j \in 1..k : wal_info.frames[j].salt # wal_info.salt)

\* the first four bytes are the magic in neither byte order
BadMagic ==
    /\ U32LE(Slice(walBytes, 0, 4)) \notin {WAL_MAGIC, WAL_MAGIC_BE}
    /\ U32BE(Slice(walBytes, 0, 4)) \notin {WAL_MAGIC, WAL_MAGIC_BE}

\* C15: on a WAL file whose magic number is neither 0x377f0682 nor
\* 0x377f0683, analysis, comparison and record extraction end in a failure.
C15_InvalidWalFails ==
    (lastCall.op \in WalOps /\ hasWal /\ BadMagic) => lastCall.outcome = "error"

\* the last call read the header and found it invalid
Invalid ==
    /\ lastCall.op \in WalOps
    /\ lastCall.outcome = "ok"
    /\ ~wal_info.valid

\* the 32-byte header of the file carries one of the two magic numbers
FileHeaderValid ==
    /\ Len(walBytes) >= WAL_HEADER_SIZE
    /\ FileMagic \in {WAL_MAGIC, WAL_MAGIC_BE}

\* C19: the analyzer is valid only for a header it found valid and stays so;
\* frames are parsed only in calls that end with a valid header; an analyzer
\* that found the header invalid stays invalid, and whenever the analyzer is
\* not valid its frame list is empty and frame_count is 0.
C19_StateOrder ==
    /\ [](wal_info.valid => FileHeaderValid)
    /\ [](Invalid => ~FileHeaderValid)
    /\ [](~wal_info.valid => wal_info.frames = <<>> /\ wal_info.frame_count = 0)
    /\ [][/\ wal_info.valid => wal_info.valid'
          /\ Invalid => ~wal_info.valid'
          /\ wal_info.frames' # wal_info.frames => wal_info.valid']_vars

\* a comparison that ran on a log with frames behind an invalid header
C19_Witness ==
    /\ Invalid
    /\ lastCall.op = "compare_with_db"
    /\ Len(walBytes) >= WAL_HEADER_SIZE + FRAME_HEADER_SIZE + ModelPageSize

\* C20: frame_count equals the length of frames, and frames holds each frame
\* of the file exactly once.
C20_FramesOnce ==
    /\ wal_info.frame_count = Len(wal_info.frames)
    /\ \A i, j \in 1..Len(wal_info.frames) :
           i # j => wal_info.frames[i].offset # wal_info.frames[j].offset
    /\ wal_info.valid =>
           \A k \in FileFrames :
               \E i \in 1..Len(wal_info.frames) :
                   wal_info.frames[i].offset = WAL_HEADER_SIZE + k * FrameSize

(***************************************************************************)
(* Claims about the freelist walk and the recovered items (SpecFreelist).  *)
(***************************************************************************)
\* C18: the walk collects no more pages than the freelist count the header
\* declares, also on a cyclic chain, and the scan then goes on with the pages
\* that were collected.
C18_BoundedByDeclaredCount ==
    RecoveryReturned =>
        /\ Len(parser.free_pages) <= DeclaredFreePages
        /\ scan_results.free_page_count = Len(parser.free_pages)

(***************************************************************************)
(* Claims about the recovered items (SpecRecovery).                        *)
(***************************************************************************)
CarveReturned ==
    /\ lastCall.op = "carve_deleted_tables"
    /\ lastCall.outcome = "ok"

\* the records scan_freelist recovered, over all pages it reports
ScannedRecords ==
    UNION {{scan_results.recovered_data[k].recovered_records[j] :
                j \in 1..Len(scan_results.recovered_data[k].recovered_records)} :
           k \in 1..Len(scan_results.recovered_data)}

\* C13: every record recovered from the cells of a table leaf carries the
\* confidence tag Structured.
C13_RecordsTagged ==
    RecoveryReturned =>
        \A record \in ScannedRecords :
            /\ "confidence" \in DOMAIN record
            /\ record.confidence = "Structured"

\* the page size the database header declares
HeaderPageSize == U16BE(Slice(dbBytes, 16, 18))

\* a carve that follows a freelist scan of the same file
ScannedThenCarved ==
    /\ CarveReturned
    /\ scan_results # NoResult

\* C16: on a database whose length is a multiple of its page size, every free
\* page for which scan_freelist recovered a record is among the carved pages
\* of carve_deleted_tables, with the same page number and the same records.
C16_ScanWithinCarve ==
    (ScannedThenCarved /\ Len(dbBytes) % HeaderPageSize = 0) =>
        \A k \in 1..Len(scan_results.recovered_data) :
            scan_results.recovered_data[k].recovered_records # <<>> =>
                \E c \in 1..Len(result.carved_pages) :
                    /\ result.carved_pages[c].page_index =
                           scan_results.recovered_data[k].page_number
                    /\ result.carved_pages[c].records =
                           scan_results.recovered_data[k].recovered_records

\* a whole file with a free table leaf that holds a record
C16_Witness ==
    /\ ScannedThenCarved
    /\ Len(dbBytes) % HeaderPageSize = 0
    /\ \E k \in 1..Len(scan_results.recovered_data) :
           /\ scan_results.recovered_data[k].page_number = 4
           /\ scan_results.recovered_data[k].recovered_records # <<>>

Range(seq) == {seq[i] : i \in 1..Len(seq)}

\* the fragments found on the pages the last call looked at
FoundFragments ==
    IF lastCall.op = "recover_deleted_records"
    THEN UNION {Range(scan_results.recovered_data[k].text_fragments) :
                   k \in 1..Len(scan_results.recovered_data)}
    ELSE UNION {Range(_extract_text_fragments(
                          Slice(dbBytes, i * result.page_size, (i + 1) * result.page_size))) :
                   i \in 0..(Len(dbBytes) \div result.page_size - 1)}

\* C17: text_fragments holds no string twice, at most 100 entries, in order of
\* non-increasing length, all of them found; when more than 100 distinct
\* fragments were found it holds 100 and no omitted fragment is longer than a
\* listed one.
C17_LongestHundred ==
    (RecoveryReturned \/ CarveReturned) =>
        LET listed == result.text_fragments
        IN  /\ \A i, j \in 1..Len(listed) : i < j =>
                   /\ listed[i] # listed[j]
                   /\ Len(listed[i]) >= Len(listed[j])
            /\ Len(listed) <= FRAGMENT_LIMIT
            /\ Range(listed) \subseteq FoundFragments
            /\ Cardinality(FoundFragments) > FRAGMENT_LIMIT =>
                   /\ Len(listed) = FRAGMENT_LIMIT
                   /\ \A f \in FoundFragments \ Range(listed) :
                          \A g \in Range(listed) : Len(f) <= Len(g)

\* more than 100 fragments on the free pages, of more than one length
C17_Witness ==
    /\ RecoveryReturned
    /\ Cardinality(FoundFragments) > FRAGMENT_LIMIT
    /\ Len(result.text_fragments[1]) > Len(result.text_fragments[FRAGMENT_LIMIT])

(***************************************************************************)
(* Claims about the frame scan (SpecWalHeader).                            *)
(***************************************************************************)
\* C21: the frame scan ends for every file length and page size (0 too) and
\* counts the frames that are completely present: frame_count is
\* floor((length - 32) / (24 + page_size)), the k-th frame (from 0) has offset
\* 32 + k * (24 + page_size) and size 24 + page_size and ends within the
\* file, and a truncated last frame raises nothing.
C21_CompleteFrames ==
    /\ (AnalyzeReturned /\ FileHeaderValid) =>
           /\ wal_info.frame_count = (Len(walBytes) - WAL_HEADER_SIZE) \div FrameSize
           /\ Len(wal_info.frames) >= wal_info.frame_count
           /\ \A k \in 0..(wal_info.frame_count - 1) :
                  /\ wal_info.frames[k + 1].offset = WAL_HEADER_SIZE + k * FrameSize
                  /\ wal_info.frames[k + 1].size = FrameSize
                  /\ wal_info.frames[k + 1].offset + FrameSize <= Len(walBytes)
    /\ (lastCall.op = "analyze" /\ lastCall.outcome = "error") =>
           lastCall.error = "PathCopyFailure"

\* a log of page size 0 with one whole frame and a part of a second one
C21_Witness ==
    /\ AnalyzeReturned
    /\ FileHeaderValid
    /\ WalPageSize = 0
    /\ wal_info.frame_count = 1
    /\ Len(walBytes) > WAL_HEADER_SIZE + FRAME_HEADER_SIZE

(***************************************************************************)
(* Claims about the order of validation and file access (SpecQuery).       *)
(***************************************************************************)
ValidationErrors == {"EmptyQuery", "MultipleStatements", "ForbiddenKeyword"}

RejectedByValidation ==
    /\ QueryCalled
    /\ lastCall.outcome = "error"
    /\ lastCall.error \in ValidationErrors

\* C22 as stated: a query rejected by validation (empty, several statements,
\* forbidden keyword) is rejected before any file is opened, read or copied.
C22_AsStated == RejectedByValidation => lastCall.accesses = {}

\* C22: a query rejected by validation is rejected before any scratch
\* directory is made, any file is copied and any SQL connection is opened;
\* the one file access of the call is the read-only open of the database
\* for its first 16 bytes, which comes before the validation.
C22_OnlyHeaderRead ==
    RejectedByValidation =>
        /\ lastCall.accesses = {<<"db", "read">>}
        /\ lastCall.created = {}
        /\ ~lastCall.executed

C22_Witness ==
    /\ RejectedByValidation
    /\ lastCall.error = "ForbiddenKeyword"
    /\ is_sqlite_database(dbExists, dbBytes)

(***************************************************************************)
(* Claims about how often a call opens the original (SpecAccess).          *)
(***************************************************************************)
FreelistOps == {"SQLiteFreelistParser", "recover_deleted_records", "carve_deleted_tables"}

\* the ways the last call opened the original database file
OriginalOpens == {a \in lastCall.accesses : a[1] = "db"}

\* C23: within one call of the freelist parser and its scan, of carving or of
\* a WAL operation the original database file is opened at most once, and that
\* open is a copy or a pure read.
C23_OpenedOnce ==
    lastCall.op \in FreelistOps \cup WalOps =>
        /\ Cardinality(OriginalOpens) <= 1
        /\ \A a \in OriginalOpens : a[2] \in {"copy", "read"}

(***************************************************************************)
(* Claims about failures confined to one frame (SpecWal).                  *)
(***************************************************************************)
\* the failures of a whole file: it cannot be copied, opened or found
FileLevelErrors == {"PathCopyFailure", "DatabaseError", "FileNotFoundError"}

\* C24: a failure confined to one frame, such as a frame whose page number is
\* 0 or past the end of the main file, never aborts compare_with_db: the
\* comparison fails only when a whole file cannot be copied, opened or found.
C24_FrameFailureSwallowed ==
    (lastCall.op = "compare_with_db" /\ lastCall.outcome = "error") =>
        lastCall.error \in FileLevelErrors

(***************************************************************************)
(* Claims about the page entries of scan_freelist (SpecRecovery).          *)
(***************************************************************************)
\* the pages of the collected list that the scan does not skip
ListedPages == SelectSeq(parser.free_pages, LAMBDA n : n > 1)

\* the bytes the file holds of page n
PageImage(n) ==
    Slice(dbBytes, (n - 1) * HeaderPageSize, n * HeaderPageSize)

\* four printable bytes in a row, one of them a letter or a digit
HasTextRun(bytes) ==
    \E i \in 1..(Len(bytes) - 3) :
        /\ \A j \in i..(i + 3) : bytes[j] \in 32..126
        /\ \E j \in i..(i + 3) : bytes[j] \in (48..57) \cup (65..90) \cup (97..122)

\* C25: scan_freelist returns one entry for each element of the collected
\* free-page list whose number is greater than 1, in the order of the list,
\* and none for page 1; an entry has text fragments whenever its page holds
\* text, whatever the type of the page, and has cell records only when the
\* page is a table leaf.
C25_EntryPerFreePage ==
    RecoveryReturned =>
        LET recovered_data == scan_results.recovered_data
        IN  /\ Len(recovered_data) = Len(ListedPages)
            /\ \A k \in 1..Len(recovered_data) :
                   /\ recovered_data[k].page_number = ListedPages[k]
                   /\ recovered_data[k].page_number # 1
                   /\ HasTextRun(PageImage(ListedPages[k])) =>
                          recovered_data[k].text_fragments # <<>>
                   /\ recovered_data[k].recovered_records # <<>> =>
                          /\ Len(PageImage(ListedPages[k])) >= 8
                          /\ PageImage(ListedPages[k])[1] = 13

\* the list holds page 1, and the scan returned text from a page that is no
\* table leaf and records from one that is
C25_Witness ==
    /\ RecoveryReturned
    /\ \E k \in 1..Len(parser.free_pages) : parser.free_pages[k] = 1
    /\ \E k \in 1..Len(scan_results.recovered_data) :
           /\ scan_results.recovered_data[k].page_type # 13
           /\ scan_results.recovered_data[k].text_fragments # <<>>
    /\ \E k \in 1..Len(scan_results.recovered_data) :
           /\ scan_results.recovered_data[k].page_type = 13
           /\ scan_results.recovered_data[k].recovered_records # <<>>

(***************************************************************************)
(* Claims about the sweep of carve_deleted_tables (SpecRecovery).          *)
(***************************************************************************)
\* the page-aligned offsets below the length of the file, as page indices from 0
AlignedPages == {i \in 0..Len(dbBytes) : i * result.page_size < Len(dbBytes)}

\* the bytes the file holds at the i-th (from 0) page-aligned offset
SweptPage(i) == Slice(dbBytes, i * result.page_size, (i + 1) * result.page_size)

\* a page with the table-leaf marker from which a cell record parses
LeafWithRecord(page_data) ==
    /\ page_data # <<>>
    /\ page_data[1] = 13
    /\ _extract_records_from_page(page_data, result.page_size) # <<>>

CarvedAt(i) ==
    \E k \in 1..Len(result.carved_pages) :
        /\ result.carved_pages[k].page_index = i + 1
        /\ result.carved_pages[k].page_offset = i * result.page_size

\* C26: carving looks at the page at every page-aligned offset below the
\* length of the file and reports, with page_index i + 1 and page_offset
\* i * page_size, every one that starts with 0x0D and yields a cell record.
C26_EveryAlignedPage ==
    CarveReturned => \A i \in AlignedPages : LeafWithRecord(SweptPage(i)) => CarvedAt(i)

(***************************************************************************)
(* Claims about the page size of carve_deleted_tables (SpecCarve).         *)
(***************************************************************************)
\* the header gives a page size: the stored value is 1 or at least 512
HeaderGivesPageSize ==
    /\ Len(dbBytes) >= 18
    /\ (HeaderPageSize = 1 \/ HeaderPageSize >= 512)

\* the common page sizes from 512 to 65536
CommonSizes == {2 ^ e : e \in 9..16}

FreelistIntact ==
    Slice(dbBytes, 32, 40) = BE32(2) \o BE32((Len(dbBytes) \div RealPageSize) - 1)

\* a carving that returns right after one that returned
SecondCarve ==
    /\ CarveReturned
    /\ callsLeft' < callsLeft
    /\ lastCall'.op = "carve_deleted_tables"
    /\ lastCall'.outcome = "ok"

\* C28: the carved pages do not depend on the freelist fields of the header:
\* two files that differ only in header bytes 32-39 yield the same
\* carved_pages, and a carving fails only when the file cannot be copied or
\* opened, never because the freelist chain is corrupt or cyclic.
C28_CarveIgnoresFreelist ==
    /\ [][SecondCarve => result'.carved_pages = result.carved_pages]_vars
    /\ []((lastCall.op = "carve_deleted_tables" /\ lastCall.outcome = "error")
              => lastCall.error \in {"PathCopyFailure", "DatabaseError"})

\* the second of two carvings returned pages, on a file whose freelist was
\* relinked after the first one to a trunk that names itself
C28_Witness ==
    /\ CarveReturned
    /\ callsLeft = 0
    /\ ~FreelistIntact
    /\ U32BE(Slice(dbBytes, 32, 36)) > 2
    /\ PageImage(U32BE(Slice(dbBytes, 32, 36))) = LoopPage(U32BE(Slice(dbBytes, 32, 36)))
    /\ result.carved_pages # <<>>

(***************************************************************************)
(* Claims about the cell pointers of a leaf page (SpecLeafPage).           *)
(***************************************************************************)
\* the free leaf page (page 3) as the file holds it, its declared cell count
\* and its i-th (from 0) cell pointer
LeafImage == PageImage(3)

DeclaredCells == U16BE(Slice(LeafImage, 3, 5))

Pointer(i) == U16BE(Slice(LeafImage, 8 + 2 * i, 10 + 2 * i))

\* a pointer outside [0, page_size) or outside the buffer
Outside(p) == p < 0 \/ p >= HeaderPageSize \/ p >= Len(LeafImage)

\* the pointers the extraction has to follow: inside, and to a cell whose
\* payload size is not 0 (the cells here have one-byte varints)
Followed == {i \in 0..(DeclaredCells - 1) :
                Pointer(i) > 0 /\ ~Outside(Pointer(i)) /\ LeafImage[Pointer(i) + 1] > 0}

\* the records the scan returned for the free leaf page
LeafRecords ==
    IF \E k \in 1..Len(scan_results.recovered_data) :
           scan_results.recovered_data[k].page_number = 3
    THEN (CHOOSE e \in Range(scan_results.recovered_data) : e.page_number = 3).recovered_records
    ELSE <<>>

\* C29: a cell pointer outside [0, page_size) or outside the buffer is
\* skipped and does not end the page: no record comes from it, every other
\* pointer to a cell is still followed, and the page yields at most as many
\* records as its header declares cells.
C29_BadPointersSkipped ==
    RecoveryReturned =>
        /\ Len(LeafRecords) <= DeclaredCells
        /\ Len(LeafRecords) = Cardinality(Followed)
        /\ \A k \in 1..Len(LeafRecords) :
               \E i \in Followed : LeafRecords[k].rowid = LeafImage[Pointer(i) + 2]
        /\ \A i \in Followed :
               \E k \in 1..Len(LeafRecords) : LeafRecords[k].rowid = LeafImage[Pointer(i) + 2]

\* a pointer outside the buffer comes before one to a cell, whose record is returned
C29_Witness ==
    /\ RecoveryReturned
    /\ \E i, j \in 0..(DeclaredCells - 1) :
           /\ i < j
           /\ Pointer(i) > 0
           /\ Outside(Pointer(i))
           /\ j \in Followed
    /\ LeafRecords # <<>>

(***************************************************************************)
(* Claims about the value of a varint (SpecVarint).                        *)
(***************************************************************************)
\* the bytes a varint at the offset can use: at most 9, up to the end of the buffer
Available ==
    Slice(varintIn.data, varintIn.offset, Min(varintIn.offset + 9, Len(varintIn.data)))

\* the positions (from 1) of the available bytes without the bit 0x80
Terminators == {n \in 1..Len(Available) : Available[n] < 128}

EncodingLength == CHOOSE n \in Terminators : \A m \in Terminators : n <= m

\* the big-endian base-128 value of the low 7 bits of the first n available
\* bytes; values from 2^30 on are all written Huge
RECURSIVE GroupsValue(_)
GroupsValue(n) ==
    IF n = 0 THEN 0
    ELSE IF GroupsValue(n - 1) >= Huge \div 128 THEN Huge
    ELSE GroupsValue(n - 1) * 128 + (Available[n] % 128)

\* what the payload-size varint of a cell at the offset decodes to
PayloadSize == IF Terminators = {} THEN 0 ELSE GroupsValue(EncodingLength)

\* C30: where a byte without the bit 0x80 is among the first 9 available
\* bytes, _decode_varint returns the big-endian base-128 value of the 7-bit
\* groups up to that byte and the length of the encoding; where there is
\* none it returns 0 and 1; and _parse_cell yields no record for a cell whose
\* payload-size varint decodes to 0.
C30_VarintValue ==
    /\ (VarintDecoded /\ Terminators # {}) =>
           /\ result.value = GroupsValue(EncodingLength)
           /\ result.bytes_read = EncodingLength
    /\ (VarintDecoded /\ Terminators = {}) =>
           /\ result.value = 0
           /\ result.bytes_read = 1
    /\ (lastCall.op = "_parse_cell" /\ PayloadSize = 0) => result = <<>>

\* a varint of three bytes whose groups are not all alike
C30_Witness ==
    /\ VarintDecoded
    /\ Terminators # {}
    /\ EncodingLength = 3
    /\ Available[1] # Available[2]
    /\ result.value > 128 * 128
    /\ result.value < Huge

====
